---- MODULE Spec2Model ----
(***************************************************************************)
(* Personal Banking App: the persistence layer (models.py), the due-date   *)
(* rollover rule, and the handlers of gui.py that drive them (login,       *)
(* logout, registration, the alert evaluator).                             *)
(*                                                                         *)
(* Representation.                                                         *)
(*   - a date string 'YYYY-MM-DD' is the tuple <<y, m, d>>; SQLite's TEXT  *)
(*     comparison of two such strings is the lexicographic order of the    *)
(*     tuples (StrLess).  A month string 'YYYY-MM' is <<y, m>>.            *)
(*   - a datetime.date object is the record [year, month, day].            *)
(*     strptime / strftime convert between the two; a constructor or a     *)
(*     parse that raises ValueError yields RaisedValueError.               *)
(*   - amounts (REAL) are whole numbers of cents.                          *)
(*   - None is 0 (AUTOINCREMENT ids start at 1).                           *)
(***************************************************************************)
EXTENDS Integers, Sequences, FiniteSets, TLC

VARIABLES
    Users,              \* table Users: rows [id, username, password]
    Expenses,           \* table Expenses: rows [id, date, category, amount, user_id]
    RecurringPayments,  \* table RecurringPayments: rows [id, name, amount, due_date, frequency, user_id]
    Budget,             \* table Budget: rows [id, month, amount, user_id]
    Categories,         \* table Categories: rows [id, name, user_id]
    sqlite_sequence,    \* AUTOINCREMENT counters, one per table
    current_user_id,    \* PersonalBankingApp.current_user_id (None = 0)
    today,              \* datetime.now().date(), as a date record
    notes,              \* the message boxes shown by the last handler, in order
    last,               \* the last call: its name, its arguments, its result
    after_callbacks,    \* Tk's pending after() callbacks, in the order they fire
    frame,              \* the frame show_frame raised last
    current_page,       \* ViewExpensesPage.current_page
    total_pages,        \* ViewExpensesPage.total_pages
    tree                \* ViewExpensesPage.tree: the rows displayed, in order

vars == <<Users, Expenses, RecurringPayments, Budget, Categories, sqlite_sequence,
          current_user_id, today, notes, last,
          after_callbacks, frame, current_page, total_pages, tree>>

\* The state of the View Expenses page, and that of the window as a whole.
page == <<current_page, total_pages, tree>>
window == <<after_callbacks, frame, current_page, total_pages, tree>>

store == <<Users, Expenses, RecurringPayments, Budget, Categories, sqlite_sequence>>

None == 0

(***************************************************************************)
(* Bounds and input sets.                                                  *)
(***************************************************************************)
\* AUTOINCREMENT is capped: at most MaxRowId rows are ever inserted per table.
MaxRowId == 2
\* The clock advances at most MaxDays days past StartDay.
MaxDays == 2
\* Where every writing operation is in play at once: at most MaxOwnedRows rows
\* are ever inserted into Categories, Expenses, RecurringPayments and Budget
\* together.
MaxOwnedRows == 1

Years == 2023..2025
Frequencies == {"Weekly", "Monthly", "Yearly", "Daily"}

(***************************************************************************)
(* datetime: the calendar.                                                 *)
(***************************************************************************)
IsLeap(y) == (y % 4 = 0 /\ y % 100 # 0) \/ y % 400 = 0

DaysInMonth(y, m) ==
    IF m = 2 THEN (IF IsLeap(y) THEN 29 ELSE 28)
    ELSE IF m \in {4, 6, 9, 11} THEN 30 ELSE 31

IsValidDate(y, m, d) ==
    /\ y \in 1..9999
    /\ m \in 1..12
    /\ d \in 1..DaysInMonth(y, m)

\* What a raising constructor or parse leaves in place of a date.
RaisedValueError == [year |-> 0, month |-> 0, day |-> 0]

\* datetime(year, month, day).date(): raises ValueError on an impossible date.
datetime(y, m, d) ==
    IF IsValidDate(y, m, d) THEN [year |-> y, month |-> m, day |-> d]
    ELSE RaisedValueError

\* datetime.strptime(s, '%Y-%m-%d').date()
strptime(s) == datetime(s[1], s[2], s[3])

\* d.strftime('%Y-%m-%d')
strftime(d) == <<d.year, d.month, d.day>>

\* d.strftime('%Y-%m')
strftime_month(d) == <<d.year, d.month>>

DaysBeforeYear(y) ==
    LET p == y - 1 IN p * 365 + (p \div 4) - (p \div 100) + (p \div 400)

RECURSIVE DaysBeforeMonth(_, _)
DaysBeforeMonth(y, m) ==
    IF m = 1 THEN 0 ELSE DaysBeforeMonth(y, m - 1) + DaysInMonth(y, m - 1)

\* date.toordinal(): the day number in the proleptic Gregorian calendar.
toordinal(d) == DaysBeforeYear(d.year) + DaysBeforeMonth(d.year, d.month) + d.day

\* date.fromordinal(n)
fromordinal(n) ==
    LET y == CHOOSE yy \in ((n \div 366) + 1)..((n \div 365) + 1) :
                 DaysBeforeYear(yy) < n /\ n <= DaysBeforeYear(yy + 1)
        r == n - DaysBeforeYear(y)
        m == CHOOSE mm \in 1..12 :
                 DaysBeforeMonth(y, mm) < r /\ r <= DaysBeforeMonth(y, mm) + DaysInMonth(y, mm)
    IN [year |-> y, month |-> m, day |-> r - DaysBeforeMonth(y, m)]

\* The day number advanced by n within the month, no carry into the next month.
plus_days_nocarry(d, n) == datetime(d.year, d.month, d.day + n)

\* d + timedelta(days = n)
plus_days(d, n) == fromordinal(toordinal(d) + n)

\* (a - b).days
days_between(a, b) == toordinal(a) - toordinal(b)

\* SQLite's comparison of two TEXT values holding ISO dates (or months).
RECURSIVE StrLessFrom(_, _, _)
StrLessFrom(a, b, i) ==
    IF i > Len(a) \/ i > Len(b) THEN Len(a) < Len(b)
    ELSE IF a[i] # b[i] THEN a[i] < b[i]
    ELSE StrLessFrom(a, b, i + 1)

StrLess(a, b) == StrLessFrom(a, b, 1)
StrLeq(a, b) == a = b \/ StrLess(a, b)

ValidDates ==
    { dt \in [year : Years, month : 1..12, day : 1..31] :
        IsValidDate(dt.year, dt.month, dt.day) }

(***************************************************************************)
(* models.py: calculate_next_due_date                                      *)
(***************************************************************************)
\* The Monthly branch without the clamp of the day to 28.
calculate_next_due_date_noclamp(current_due_date, frequency) ==
    IF frequency = "Weekly" THEN plus_days(current_due_date, 7)
    ELSE IF frequency = "Yearly"
    THEN datetime(current_due_date.year + 1, current_due_date.month, current_due_date.day)
    ELSE LET month == current_due_date.month
             year == current_due_date.year + (month \div 12)
         IN datetime(year, (month % 12) + 1, current_due_date.day)

calculate_next_due_date(current_due_date, frequency) ==
    IF frequency = "Weekly" THEN plus_days(current_due_date, 7)
    ELSE IF frequency = "Monthly"
    THEN LET month == current_due_date.month
             year == current_due_date.year + (month \div 12)
             month2 == (month % 12) + 1
             day == IF current_due_date.day < 28 THEN current_due_date.day ELSE 28
         IN datetime(year, month2, day)
    ELSE IF frequency = "Yearly"
    THEN datetime(current_due_date.year + 1, current_due_date.month, current_due_date.day)
    ELSE LET month == current_due_date.month
             year == current_due_date.year + (month \div 12)
             month2 == (month % 12) + 1
             day == IF current_due_date.day < 28 THEN current_due_date.day ELSE 28
         IN datetime(year, month2, day)

(***************************************************************************)
(* The state after PersonalBankingApp.__init__ on a fresh database.        *)
(***************************************************************************)
StartDay == [year |-> 2024, month |-> 2, day |-> 28]

InitDb ==
    /\ Users = {}
    /\ Expenses = {}
    /\ RecurringPayments = {}
    /\ Budget = {}
    /\ Categories = {}
    /\ sqlite_sequence = [Users |-> 0, Expenses |-> 0, RecurringPayments |-> 0, Budget |-> 0,
                          Categories |-> 0]

\* self.after(86400000, alert): 24 hours, in milliseconds.
AlertInterval == 86400000

\* An after() that schedules nothing.
after_nothing(callbacks, ms, func) == callbacks

\* Tk.after(ms, func): one more pending callback, behind those pending already.
after(callbacks, ms, func) == Append(callbacks, [ms |-> ms, func |-> func])

\* PersonalBankingApp.__init__: nobody is logged in, the frames are created
\* (ViewExpensesPage with current_page = total_pages = 1 and an empty tree), the
\* login page is shown, and check_alerts runs alert() once, which checks
\* nothing and schedules the first tick.
InitWindow ==
    /\ after_callbacks = after(<<>>, AlertInterval, "alert")
    /\ frame = "LoginPage"
    /\ current_page = 1
    /\ total_pages = 1
    /\ tree = <<>>

InitApp ==
    /\ InitDb
    /\ current_user_id = None
    /\ today = StartDay
    /\ notes = <<>>
    /\ InitWindow

Init ==
    /\ InitApp
    /\ last = [op |-> "init"]

(***************************************************************************)
(* models.py: class User                                                   *)
(***************************************************************************)
Usernames == {"alice", "bob"}
Passwords == {"p1", "p2"}

\* INSERT INTO Users without the UNIQUE constraint on username.
add_user_nounique(U, seq, username, password) ==
    [error  |-> "none",
     result |-> seq + 1,
     rows   |-> U \cup {[id |-> seq + 1, username |-> username, password |-> password]},
     seq    |-> seq + 1]

\* User.add_user on the table U whose AUTOINCREMENT counter is seq: the UNIQUE
\* constraint turns into ValueError, otherwise the row is inserted and
\* cursor.lastrowid returned.
add_user(U, seq, username, password) ==
    IF \E u \in U : u.username = username
    THEN [error |-> "ValueError", result |-> None, rows |-> U, seq |-> seq]
    ELSE [error  |-> "none",
          result |-> seq + 1,
          rows   |-> U \cup {[id |-> seq + 1, username |-> username, password |-> password]},
          seq    |-> seq + 1]

\* SELECT id ... WHERE username = ?: the password is not compared.
authenticate_nopassword(U, username, password) ==
    IF \E u \in U : u.username = username
    THEN (CHOOSE u \in U : u.username = username).id
    ELSE None

\* User.authenticate: fetchone() of SELECT id FROM Users WHERE username = ? AND
\* password = ? (username is UNIQUE: at most one row matches).
authenticate(U, username, password) ==
    LET match == {u \in U : u.username = username /\ u.password = password}
    IN IF match # {} THEN (CHOOSE u \in match : TRUE).id ELSE None

\* A direct call of User.add_user, the password drawn from the set pws.
UserAddUserWith(pws) ==
    \E username \in Usernames, password \in pws :
        LET r == add_user(Users, sqlite_sequence.Users, username, password) IN
        /\ r.seq <= MaxRowId
        /\ Users' = r.rows
        /\ sqlite_sequence' = [sqlite_sequence EXCEPT !.Users = r.seq]
        /\ UNCHANGED window
        /\ last' = [op |-> "User.add_user", username |-> username, password |-> password,
                    error |-> r.error, result |-> r.result]
        /\ notes' = <<>>
        /\ UNCHANGED <<Expenses, RecurringPayments, Budget, Categories, current_user_id, today>>

UserAddUser == UserAddUserWith(Passwords)

\* Registration where the password plays no part: every user takes "p1".
UserAddUserP1 == UserAddUserWith({"p1"})

\* A direct call of User.authenticate.
UserAuthenticate ==
    \E username \in Usernames, password \in Passwords :
        /\ UNCHANGED window
        /\ last' = [op |-> "User.authenticate", username |-> username, password |-> password,
                    error |-> "none",
                    result |-> authenticate(Users, username, password)]
        /\ notes' = <<>>
        /\ UNCHANGED <<store, current_user_id, today>>

(***************************************************************************)
(* gui.py: LoginPage.login, NavigationBar.logout, RegisterPage.register    *)
(***************************************************************************)
\* What can be typed into an entry: "" (left empty), a name or password, or
\* one with surrounding blanks.
TypedUsernames == Usernames \cup {"", " alice "}
TypedPasswords == Passwords \cup {"", " p1 "}

\* str.strip()
strip(s) ==
    IF s = " alice " THEN "alice"
    ELSE IF s = " p1 " THEN "p1"
    ELSE IF s = " " THEN ""
    ELSE s

LoginPage_loginWith(typed_usernames, typed_passwords) ==
    \E typed_username \in typed_usernames, typed_password \in typed_passwords :
        LET username == strip(typed_username)
            password == strip(typed_password)
            user_id == authenticate(Users, username, password)
        IN
        /\ IF username = "" \/ password = ""
           THEN /\ notes' = <<[kind |-> "Input Error"]>>
                /\ UNCHANGED current_user_id
           ELSE IF user_id # None
           THEN /\ current_user_id' = user_id
                /\ notes' = <<[kind |-> "Success"]>>
           ELSE /\ notes' = <<[kind |-> "Authentication Failed"]>>
                /\ UNCHANGED current_user_id
        /\ frame' = IF username # "" /\ password # "" /\ user_id # None
                    THEN "HomePage" ELSE frame
        /\ UNCHANGED <<after_callbacks, page>>
        /\ last' = [op |-> "LoginPage.login", username |-> typed_username,
                    password |-> typed_password]
        /\ UNCHANGED <<store, today>>

LoginPage_login == LoginPage_loginWith(TypedUsernames, TypedPasswords)

\* A login with the name of a user and the password "p1".
LoginPage_loginP1 == LoginPage_loginWith(Usernames, {"p1"})

\* A logout that does not ask: the session ends whatever the answer.
NavigationBar_logout_unasked ==
    \E confirm \in BOOLEAN :
        /\ current_user_id' = None
        /\ notes' = <<>>
        /\ frame' = "LoginPage"
        /\ UNCHANGED <<after_callbacks, page>>
        /\ last' = [op |-> "NavigationBar.logout", confirm |-> confirm]
        /\ UNCHANGED <<store, today>>

NavigationBar_logout ==
    \E confirm \in BOOLEAN :
        /\ current_user_id' = IF confirm THEN None ELSE current_user_id
        /\ notes' = <<>>
        /\ frame' = IF confirm THEN "LoginPage" ELSE frame
        /\ UNCHANGED <<after_callbacks, page>>
        /\ last' = [op |-> "NavigationBar.logout", confirm |-> confirm]
        /\ UNCHANGED <<store, today>>

RegisterPage_registerWith(typed_usernames, typed_passwords) ==
    \E typed_username \in typed_usernames, typed_password \in typed_passwords,
       typed_confirm \in typed_passwords :
        LET username == strip(typed_username)
            password == strip(typed_password)
            confirm_password == strip(typed_confirm)
            r == add_user(Users, sqlite_sequence.Users, username, password)
        IN
        /\ IF username = "" \/ password = "" \/ confirm_password = ""
           THEN /\ notes' = <<[kind |-> "Input Error"]>>
                /\ UNCHANGED <<Users, sqlite_sequence>>
           ELSE IF password # confirm_password
           THEN /\ notes' = <<[kind |-> "Input Error"]>>
                /\ UNCHANGED <<Users, sqlite_sequence>>
           ELSE /\ r.seq <= MaxRowId
                /\ Users' = r.rows
                /\ sqlite_sequence' = [sqlite_sequence EXCEPT !.Users = r.seq]
                /\ notes' = IF r.error = "none" THEN <<[kind |-> "Success"]>>
                            ELSE <<[kind |-> "Registration Failed"]>>
        /\ frame' = IF /\ username # "" /\ password # "" /\ confirm_password # ""
                       /\ password = confirm_password /\ r.error = "none"
                    THEN "LoginPage" ELSE frame
        /\ UNCHANGED <<after_callbacks, page>>
        /\ last' = [op |-> "RegisterPage.register", username |-> typed_username,
                    password |-> typed_password, confirm |-> typed_confirm]
        /\ UNCHANGED <<Expenses, RecurringPayments, Budget, Categories, current_user_id, today>>

RegisterPage_register == RegisterPage_registerWith(TypedUsernames, TypedPasswords)

\* A registration under one of the two names with the password "p1".
RegisterPage_registerP1 == RegisterPage_registerWith(Usernames, {"p1"})

NextUsers ==
    \/ UserAddUser
    \/ UserAuthenticate
    \/ LoginPage_login
    \/ NavigationBar_logout
    \/ RegisterPage_register

SpecUsers == Init /\ [][NextUsers]_vars

\* C9: User.add_user fails with ValueError when the username exists and then
\* leaves Users unchanged (the first registrant's password still authenticates,
\* the rejected password does not); otherwise it inserts the user under a new
\* id distinct from every existing id.  No state holds two users of one name.
C9_UsernameUnique ==
    /\ [](\A u1, u2 \in Users : u1.username = u2.username => u1 = u2)
    /\ [][last'.op = "User.add_user" =>
            IF \E u \in Users : u.username = last'.username
            THEN /\ last'.error = "ValueError"
                 /\ Users' = Users
                 /\ \A u \in Users :
                      u.username = last'.username =>
                        /\ authenticate(Users', u.username, u.password) = u.id
                        /\ (last'.password # u.password =>
                              authenticate(Users', u.username, last'.password) = None)
            ELSE /\ last'.error = "none"
                 /\ last'.result \notin {u.id : u \in Users}
                 /\ last'.result # None
                 /\ Users' = Users \cup {[id |-> last'.result,
                                          username |-> last'.username,
                                          password |-> last'.password]}]_vars

\* register("alice", "p1") then register("alice", "p2") was rejected.
C9_Witness ==
    /\ last.op = "User.add_user"
    /\ last.error = "ValueError"
    /\ \E u \in Users : u.username = last.username /\ u.password # last.password

\* C10: User.authenticate returns the id of the stored user with that username
\* and exactly that password, None for every other input, and never modifies
\* the store.
C10_Authenticate ==
    [][last'.op = "User.authenticate" =>
         /\ store' = store
         /\ last'.error = "none"
         /\ \A u \in Users :
              (u.username = last'.username /\ u.password = last'.password)
                  => last'.result = u.id
         /\ (~ \E u \in Users :
                 u.username = last'.username /\ u.password = last'.password)
                  => last'.result = None]_vars

\* A known username with a different password: no match.
C10_Witness ==
    /\ last.op = "User.authenticate"
    /\ last.result = None
    /\ \E u \in Users : u.username = last.username /\ u.password # last.password
    /\ Cardinality(Users) = 2

(***************************************************************************)
(* SQL helpers                                                             *)
(***************************************************************************)
\* SUM(amount) over a set of rows; NULL (None) over no rows.
RECURSIVE SumAmount(_)
SumAmount(rows) ==
    IF rows = {} THEN 0
    ELSE LET r == CHOOSE x \in rows : TRUE IN r.amount + SumAmount(rows \ {r})

\* The lists that hold each row of the set once.
Listings(rows) ==
    LET n == Cardinality(rows) IN
    { f \in [1..n -> rows] : \A i, j \in 1..n : i # j => f[i] # f[j] }

\* The foreign key as it is without PRAGMA foreign_keys = ON: not enforced.
ForeignKeyOff(U, user_id) == TRUE

\* FOREIGN KEY (user_id) REFERENCES Users(id), user_id NOT NULL.
ForeignKeyOk(U, user_id) == \E u \in U : u.id = user_id

(***************************************************************************)
(* models.py: class Expense                                                *)
(***************************************************************************)
ExpenseDates == {<<2024, 1, 31>>, <<2024, 2, 1>>}
ExpenseAmounts == {30, 50}
\* What Expense.update writes: a later date, another category, another amount.
UpdatedDates == {<<2024, 3, 1>>}
UpdatedAmounts == {70}
\* user_id arguments: 1 and 2 are the ids alice and bob can get, 3 is never a user.
UserIdArgs == {1, 2, 3}
RowIdArgs == 1..MaxRowId

\* Expense.add: the INSERT raises sqlite3.IntegrityError (not caught) when the
\* foreign key fails.
Expense_add(E, seq, U, date, category, amount, user_id) ==
    IF ForeignKeyOk(U, user_id)
    THEN [error |-> "none",
          rows  |-> E \cup {[id |-> seq + 1, date |-> date, category |-> category,
                             amount |-> amount, user_id |-> user_id]},
          seq   |-> seq + 1]
    ELSE [error |-> "IntegrityError", rows |-> E, seq |-> seq]

\* SELECT ... FROM Expenses without the WHERE user_id = ? clause.
Expense_select_alluser(E, user_id) == E

\* The rows a WHERE user_id = ? clause on Expenses selects.
Expense_select(E, user_id) == {e \in E : e.user_id = user_id}

\* Expense.get_all with ORDER BY date ASC.
Expense_get_all_asc(E, user_id) ==
    LET rows == Expense_select(E, user_id) IN
    { [i \in DOMAIN f |-> <<f[i].id, f[i].date, f[i].category, f[i].amount>>] :
        f \in { g \in Listings(rows) :
                  \A i, j \in DOMAIN g : i < j => StrLeq(g[i].date, g[j].date) } }

\* ORDER BY date DESC: the lists that hold each row of the set once, latest date
\* first (a row of the latest date, then the others in that order).
RECURSIVE ListingsByDateDesc(_)
ListingsByDateDesc(rows) ==
    IF rows = {} THEN {<<>>}
    ELSE UNION { { <<r>> \o rest : rest \in ListingsByDateDesc(rows \ {r}) } :
                 r \in {x \in rows : \A y \in rows : StrLeq(y.date, x.date)} }

\* Expense.get_all: the lists (id, date, category, amount) ORDER BY date DESC can
\* return; the order of rows of one date is SQLite's choice.
Expense_get_all(E, user_id) ==
    LET rows == Expense_select(E, user_id) IN
    { [i \in DOMAIN f |-> <<f[i].id, f[i].date, f[i].category, f[i].amount>>] :
        f \in ListingsByDateDesc(rows) }

\* Expense.get_spending_since with WHERE date > ?.
Expense_get_spending_since_strict(E, start_date, user_id) ==
    LET rows == {e \in Expense_select(E, user_id) : StrLess(start_date, e.date)}
        total == SumAmount(rows)
    IN IF rows # {} /\ total # 0 THEN total ELSE 0

\* Expense.get_spending_since: SUM(amount) WHERE date >= ? AND user_id = ?, and
\* 0.0 when the sum is NULL or zero.
Expense_get_spending_since(E, start_date, user_id) ==
    LET rows == {e \in Expense_select(E, user_id) : StrLeq(start_date, e.date)}
        total == SumAmount(rows)
    IN IF rows # {} /\ total # 0 THEN total ELSE 0

\* Expense.get_daily_spending: (date, SUM(amount)) GROUP BY date ORDER BY date.
Expense_get_daily_spending(E, user_id) ==
    LET rows == Expense_select(E, user_id)
        dates == {e.date : e \in rows}
        f == CHOOSE g \in Listings(dates) :
                 \A i, j \in DOMAIN g : i < j => StrLess(g[i], g[j])
    IN [i \in DOMAIN f |-> <<f[i], SumAmount({e \in rows : e.date = f[i]})>>]

\* Expense.update with the ownership check and the WHERE clause on id alone.
Expense_update_noowner(E, expense_id, new_date, new_category, new_amount, user_id) ==
    IF ~ \E e \in E : e.id = expense_id
    THEN [error |-> "ValueError", rows |-> E]
    ELSE [error |-> "none",
          rows  |-> { IF e.id = expense_id
                      THEN [e EXCEPT !.date = new_date, !.category = new_category,
                                     !.amount = new_amount]
                      ELSE e : e \in E }]

\* Expense.update: ValueError unless a row has that id and that user_id.
Expense_update(E, expense_id, new_date, new_category, new_amount, user_id) ==
    IF ~ \E e \in E : e.id = expense_id /\ e.user_id = user_id
    THEN [error |-> "ValueError", rows |-> E]
    ELSE [error |-> "none",
          rows  |-> { IF e.id = expense_id /\ e.user_id = user_id
                      THEN [e EXCEPT !.date = new_date, !.category = new_category,
                                     !.amount = new_amount]
                      ELSE e : e \in E }]

\* Expense.delete: ValueError unless a row has that id and that user_id.
Expense_delete(E, expense_id, user_id) ==
    IF ~ \E e \in E : e.id = expense_id /\ e.user_id = user_id
    THEN [error |-> "ValueError", rows |-> E]
    ELSE [error |-> "none",
          rows  |-> {e \in E : ~ (e.id = expense_id /\ e.user_id = user_id)}]

\* A direct call of Expense.add, the amount and the user_id drawn from the sets
\* given.
ExpenseAddWith(amounts, user_ids) ==
    \E date \in ExpenseDates, category \in {"food"}, amount \in amounts,
       user_id \in user_ids :
        LET r == Expense_add(Expenses, sqlite_sequence.Expenses, Users,
                             date, category, amount, user_id) IN
        /\ r.seq <= MaxRowId
        /\ Expenses' = r.rows
        /\ sqlite_sequence' = [sqlite_sequence EXCEPT !.Expenses = r.seq]
        /\ UNCHANGED window
        /\ last' = [op |-> "Expense.add", date |-> date, category |-> category,
                    amount |-> amount, user_id |-> user_id, error |-> r.error]
        /\ notes' = <<>>
        /\ UNCHANGED <<Users, RecurringPayments, Budget, Categories, current_user_id, today>>

ExpenseAdd == ExpenseAddWith(ExpenseAmounts, UserIdArgs)

\* Expense.add by the registered users only, every expense of amount 50.
ExpenseAdd50 == ExpenseAddWith({50}, {1, 2})

\* A direct call of Expense.update.
ExpenseUpdate ==
    \E expense_id \in RowIdArgs, new_date \in UpdatedDates, new_category \in {"fuel"},
       new_amount \in UpdatedAmounts, user_id \in UserIdArgs :
        LET r == Expense_update(Expenses, expense_id, new_date, new_category,
                                new_amount, user_id) IN
        /\ Expenses' = r.rows
        /\ UNCHANGED window
        /\ last' = [op |-> "Expense.update", id |-> expense_id, date |-> new_date,
                    category |-> new_category, amount |-> new_amount,
                    user_id |-> user_id, error |-> r.error]
        /\ notes' = <<>>
        /\ UNCHANGED <<Users, RecurringPayments, Budget, Categories, sqlite_sequence,
                       current_user_id, today>>

\* A direct call of Expense.delete.
ExpenseDelete ==
    \E expense_id \in RowIdArgs, user_id \in UserIdArgs :
        LET r == Expense_delete(Expenses, expense_id, user_id) IN
        /\ Expenses' = r.rows
        /\ UNCHANGED window
        /\ last' = [op |-> "Expense.delete", id |-> expense_id, user_id |-> user_id,
                    error |-> r.error]
        /\ notes' = <<>>
        /\ UNCHANGED <<Users, RecurringPayments, Budget, Categories, sqlite_sequence,
                       current_user_id, today>>

NextExpenses ==
    \/ UserAddUserP1
    \/ ExpenseAdd
    \/ ExpenseUpdate
    \/ ExpenseDelete

SpecExpenses == Init /\ [][NextExpenses]_vars

QueryDates == ExpenseDates \cup UpdatedDates \cup {<<2024, 2, 2>>}

\* C1: an expense stored with user_id = A never appears in Expense.get_all(B),
\* is never counted in Expense.get_spending_since(d, B) and never contributes to
\* Expense.get_daily_spending(B), for every user B # A and every start date d.
C1_ReadIsolation ==
    \A B \in UserIdArgs :
        LET own == {e \in Expenses : e.user_id = B}
            others == Expenses \ own
            daily == Expense_get_daily_spending(Expenses, B)
        IN
        /\ \A lst \in Expense_get_all(Expenses, B) :
              /\ \A i \in DOMAIN lst : \A e \in others : lst[i][1] # e.id
              /\ {lst[i][1] : i \in DOMAIN lst} = {e.id : e \in own}
        /\ \A d \in QueryDates :
              Expense_get_spending_since(Expenses, d, B) =
                  SumAmount({e \in own : ~ StrLess(e.date, d)})
        /\ \A i \in DOMAIN daily :
              /\ \E e \in own : e.date = daily[i][1]
              /\ daily[i][2] = SumAmount({e \in own : e.date = daily[i][1]})

\* Two users hold an expense of the same date.
C1_Witness ==
    /\ \E a, b \in Expenses : a.user_id = 1 /\ b.user_id = 2 /\ a.date = b.date
    /\ last.op = "Expense.add"
    /\ last.error = "none"

\* C2: Expense.update and Expense.delete fail with ValueError whenever no row has
\* both that id and that user_id, and then leave every Expense row unchanged;
\* otherwise update overwrites exactly the date, category and amount of that
\* row and delete removes exactly that row.
C2_ExpenseOwnership ==
    [][(last'.op \in {"Expense.update", "Expense.delete"}) =>
         LET owned == {e \in Expenses : e.id = last'.id /\ e.user_id = last'.user_id} IN
         /\ <<Users, RecurringPayments, Budget>>' = <<Users, RecurringPayments, Budget>>
         /\ IF owned = {}
            THEN /\ last'.error = "ValueError"
                 /\ Expenses' = Expenses
            ELSE /\ last'.error = "none"
                 /\ Cardinality(owned) = 1
                 /\ \A e \in owned :
                      Expenses' =
                        IF last'.op = "Expense.delete"
                        THEN Expenses \ {e}
                        ELSE (Expenses \ {e}) \cup
                             {[id |-> e.id, user_id |-> e.user_id, date |-> last'.date,
                               category |-> last'.category, amount |-> last'.amount]}]_vars

\* User B's update of an expense of user A was refused.
C2_Witness ==
    /\ last.op = "Expense.update"
    /\ last.error = "ValueError"
    /\ \E e \in Expenses : e.id = last.id /\ e.user_id # last.user_id
    /\ \E u \in Users : u.id = last.user_id

(***************************************************************************)
(* models.py: class Budget                                                 *)
(***************************************************************************)
BudgetMonths == {<<2024, 2>>, <<2024, 3>>}
BudgetAmounts == {50, 80}

\* Budget.set_monthly_budget without the SELECT: always the INSERT.
set_monthly_budget_insert(B, seq, U, month, amount, user_id) ==
    IF ForeignKeyOk(U, user_id)
    THEN [error |-> "none", updated |-> FALSE,
          rows  |-> B \cup {[id |-> seq + 1, month |-> month, amount |-> amount,
                             user_id |-> user_id]},
          seq   |-> seq + 1]
    ELSE [error |-> "IntegrityError", updated |-> FALSE, rows |-> B, seq |-> seq]

\* Budget.set_monthly_budget: UPDATE the rows of (month, user_id) when the SELECT
\* finds one, INSERT otherwise (sqlite3.IntegrityError, not caught, when the
\* foreign key fails).
set_monthly_budget(B, seq, U, month, amount, user_id) ==
    IF \E b \in B : b.month = month /\ b.user_id = user_id
    THEN [error |-> "none", updated |-> TRUE,
          rows  |-> { IF b.month = month /\ b.user_id = user_id
                      THEN [b EXCEPT !.amount = amount] ELSE b : b \in B },
          seq   |-> seq]
    ELSE IF ForeignKeyOk(U, user_id)
    THEN [error |-> "none", updated |-> FALSE,
          rows  |-> B \cup {[id |-> seq + 1, month |-> month, amount |-> amount,
                             user_id |-> user_id]},
          seq   |-> seq + 1]
    ELSE [error |-> "IntegrityError", updated |-> FALSE, rows |-> B, seq |-> seq]

\* Budget.get_monthly_budget: fetchone() of SELECT amount ... WHERE month = ? AND
\* user_id = ?, or None.  (Were several rows to match, SQLite returns the one of
\* lowest rowid.)
get_monthly_budget(B, month, user_id) ==
    LET match == {b \in B : b.month = month /\ b.user_id = user_id}
    IN IF match = {} THEN None
       ELSE (CHOOSE b \in match : \A c \in match : b.id <= c.id).amount

\* A direct call of Budget.set_monthly_budget, the amount and the user_id drawn
\* from the sets given.
BudgetSetMonthlyBudgetWith(amounts, user_ids) ==
    \E month \in BudgetMonths, amount \in amounts, user_id \in user_ids :
        LET r == set_monthly_budget(Budget, sqlite_sequence.Budget, Users,
                                    month, amount, user_id) IN
        /\ r.seq <= MaxRowId
        /\ Budget' = r.rows
        /\ sqlite_sequence' = [sqlite_sequence EXCEPT !.Budget = r.seq]
        /\ UNCHANGED window
        /\ last' = [op |-> "Budget.set_monthly_budget", month |-> month,
                    amount |-> amount, user_id |-> user_id, error |-> r.error,
                    updated |-> r.updated]
        /\ notes' = <<>>
        /\ UNCHANGED <<Users, Expenses, RecurringPayments, Categories, current_user_id, today>>

BudgetSetMonthlyBudget == BudgetSetMonthlyBudgetWith(BudgetAmounts, UserIdArgs)

\* Budget.set_monthly_budget by the registered users only, every budget 50.
BudgetSetMonthlyBudget50 == BudgetSetMonthlyBudgetWith({50}, {1, 2})

NextBudget ==
    \/ UserAddUserP1
    \/ BudgetSetMonthlyBudget

SpecBudget == Init /\ [][NextBudget]_vars

\* C3: the Budget table holds at most one row per (month, user_id);
\* get_monthly_budget is None while nothing was set for the pair and the amount
\* of the most recent set_monthly_budget afterwards; a set changes the budget of
\* no other pair.  (A set for a user_id that is no user is refused by the
\* foreign key and stores nothing.)
C3_BudgetUpsert ==
    /\ \A month \in BudgetMonths, user_id \in UserIdArgs :
          get_monthly_budget(Budget, month, user_id) = None
    /\ [](\A b1, b2 \in Budget :
            (b1.month = b2.month /\ b1.user_id = b2.user_id) => b1 = b2)
    /\ [][/\ last'.op = "Budget.set_monthly_budget" =>
               (last'.error = "none" <=> \E u \in Users : u.id = last'.user_id)
          /\ \A month \in BudgetMonths, user_id \in UserIdArgs :
               get_monthly_budget(Budget', month, user_id) =
                 IF /\ last'.op = "Budget.set_monthly_budget"
                    /\ last'.error = "none"
                    /\ last'.month = month
                    /\ last'.user_id = user_id
                 THEN last'.amount
                 ELSE get_monthly_budget(Budget, month, user_id)]_vars

\* The budget of a pair was set a second time: one row, the new amount.
C3_Witness ==
    /\ last.op = "Budget.set_monthly_budget"
    /\ last.updated
    /\ \E b, c \in Budget :
         /\ b.month = last.month /\ b.user_id = last.user_id /\ b.amount = last.amount
         /\ c.month = last.month /\ c.user_id # last.user_id /\ c.amount # last.amount
    /\ Cardinality(Budget) = 2

(***************************************************************************)
(* models.py: class RecurringPayment                                       *)
(***************************************************************************)
PaymentNames == {"rent"}
PaymentAmounts == {100}
PaymentDueDates == {<<2024, 2, 28>>, <<2024, 2, 29>>, <<2024, 3, 1>>}
PaymentFrequencies == {"Monthly", "Yearly"}

\* RecurringPayment.add: the INSERT raises sqlite3.IntegrityError (not caught)
\* when the foreign key fails.
RecurringPayment_add(RP, seq, U, name, amount, due_date, frequency, user_id) ==
    IF ForeignKeyOk(U, user_id)
    THEN [error |-> "none",
          rows  |-> RP \cup {[id |-> seq + 1, name |-> name, amount |-> amount,
                              due_date |-> due_date, frequency |-> frequency,
                              user_id |-> user_id]},
          seq   |-> seq + 1]
    ELSE [error |-> "IntegrityError", rows |-> RP, seq |-> seq]

\* RecurringPayment.get_all: the lists (id, name, amount, due_date, frequency)
\* ORDER BY due_date ASC can return; the order of rows of one due date is
\* SQLite's choice.
RecurringPayment_get_all(RP, user_id) ==
    LET rows == {p \in RP : p.user_id = user_id} IN
    { [i \in DOMAIN f |->
          <<f[i].id, f[i].name, f[i].amount, f[i].due_date, f[i].frequency>>] :
        f \in { g \in Listings(rows) :
                  \A i, j \in DOMAIN g : i < j => StrLeq(g[i].due_date, g[j].due_date) } }

\* A direct call of RecurringPayment.add, the due_date and the user_id drawn
\* from the sets given.
RecurringPaymentAddOf(due_dates, user_ids) ==
    \E name \in PaymentNames, amount \in PaymentAmounts, due_date \in due_dates,
       frequency \in PaymentFrequencies, user_id \in user_ids :
        LET r == RecurringPayment_add(RecurringPayments, sqlite_sequence.RecurringPayments,
                                      Users, name, amount, due_date, frequency, user_id) IN
        /\ r.seq <= MaxRowId
        /\ RecurringPayments' = r.rows
        /\ sqlite_sequence' = [sqlite_sequence EXCEPT !.RecurringPayments = r.seq]
        /\ UNCHANGED window
        /\ last' = [op |-> "RecurringPayment.add", name |-> name, amount |-> amount,
                    due_date |-> due_date, frequency |-> frequency,
                    user_id |-> user_id, error |-> r.error]
        /\ notes' = <<>>
        /\ UNCHANGED <<Users, Expenses, Budget, Categories, current_user_id, today>>

\* A direct call of RecurringPayment.add, the user_id drawn from the set given.
RecurringPaymentAddWith(user_ids) == RecurringPaymentAddOf(PaymentDueDates, user_ids)

RecurringPaymentAdd == RecurringPaymentAddWith(UserIdArgs)

\* RecurringPayment.add by the registered users only.
RecurringPaymentAddOwn == RecurringPaymentAddWith({1, 2})

(***************************************************************************)
(* gui.py: the alert evaluator                                             *)
(***************************************************************************)
\* PersonalBankingApp.check_recurring_payments from row i of the fetched list on:
\* the message boxes shown.  RecurringPayment has no update_due_date: the
\* overdue branch raises (ValueError from calculate_next_due_date, or else
\* AttributeError), the except clause reports it and the loop is over.
\* check_recurring_payments without its except clause: the exception of the
\* overdue branch leaves the handler and no message box is shown for it.
RECURSIVE check_recurring_payments_uncaught(_, _, _)
check_recurring_payments_uncaught(payments, i, now) ==
    IF i > Len(payments) THEN <<>>
    ELSE LET payment_id == payments[i][1]
             name == payments[i][2]
             due_date == strptime(payments[i][4])
             days_until_due == days_between(due_date, now)
         IN
         IF due_date = RaisedValueError
         THEN <<>>
         ELSE IF days_until_due = 1
         THEN <<[kind |-> "Payment Due Tomorrow", payment_id |-> payment_id, name |-> name]>>
              \o check_recurring_payments_uncaught(payments, i + 1, now)
         ELSE IF days_until_due = 0
         THEN <<[kind |-> "Payment Due Today", payment_id |-> payment_id, name |-> name]>>
              \o check_recurring_payments_uncaught(payments, i + 1, now)
         ELSE IF days_until_due < 0
         THEN <<>>
         ELSE check_recurring_payments_uncaught(payments, i + 1, now)

RECURSIVE check_recurring_payments_from(_, _, _)
check_recurring_payments_from(payments, i, now) ==
    IF i > Len(payments) THEN <<>>
    ELSE LET payment_id == payments[i][1]
             name == payments[i][2]
             frequency == payments[i][5]
             due_date == strptime(payments[i][4])
             days_until_due == days_between(due_date, now)
         IN
         IF due_date = RaisedValueError
         THEN <<[kind |-> "Error", payment_id |-> payment_id, error |-> "ValueError"]>>
         ELSE IF days_until_due = 1
         THEN <<[kind |-> "Payment Due Tomorrow", payment_id |-> payment_id, name |-> name]>>
              \o check_recurring_payments_from(payments, i + 1, now)
         ELSE IF days_until_due = 0
         THEN <<[kind |-> "Payment Due Today", payment_id |-> payment_id, name |-> name]>>
              \o check_recurring_payments_from(payments, i + 1, now)
         ELSE IF days_until_due < 0
         THEN IF calculate_next_due_date(due_date, frequency) = RaisedValueError
              THEN <<[kind |-> "Error", payment_id |-> payment_id, error |-> "ValueError"]>>
              ELSE <<[kind |-> "Error", payment_id |-> payment_id, error |-> "AttributeError"]>>
         ELSE check_recurring_payments_from(payments, i + 1, now)

check_recurring_payments(payments, now) == check_recurring_payments_from(payments, 1, now)

\* check_budget with spending >= budget_amount.
check_budget_geq(B, E, user_id, now) ==
    LET budget_amount == get_monthly_budget(B, strftime_month(now), user_id)
        spending == Expense_get_spending_since(E, strftime([now EXCEPT !.day = 1]), user_id)
    IN IF budget_amount # None /\ spending >= budget_amount
       THEN <<[kind |-> "Budget Exceeded", budget |-> budget_amount, spending |-> spending]>>
       ELSE <<>>

\* PersonalBankingApp.check_budget: the message boxes shown.
check_budget(B, E, user_id, now) ==
    LET current_month == strftime_month(now)
        budget_amount == get_monthly_budget(B, current_month, user_id)
        start_of_month == strftime([now EXCEPT !.day = 1])
        spending == Expense_get_spending_since(E, start_of_month, user_id)
    IN IF budget_amount # None /\ spending > budget_amount
       THEN <<[kind |-> "Budget Exceeded", budget |-> budget_amount, spending |-> spending]>>
       ELSE <<>>

\* PersonalBankingApp.check_alerts.alert: one firing of the timer.  Nothing is
\* written to the store: the only write of the pass is the missing
\* update_due_date.
check_alerts_alert ==
    \E payments \in RecurringPayment_get_all(RecurringPayments, current_user_id) :
        /\ notes' = IF current_user_id # None
                    THEN check_recurring_payments(payments, today)
                         \o check_budget(Budget, Expenses, current_user_id, today)
                    ELSE <<>>
        /\ after_callbacks # <<>>
        /\ after_callbacks' = after(Tail(after_callbacks), AlertInterval, "alert")
        /\ UNCHANGED <<frame, page>>
        /\ last' = [op |-> "alert"]
        /\ UNCHANGED <<store, current_user_id, today>>

\* The calendar day changes.
Midnight ==
    /\ days_between(today, StartDay) < MaxDays
    /\ today' = plus_days(today, 1)
    /\ UNCHANGED window
    /\ last' = [op |-> "midnight"]
    /\ UNCHANGED <<store, current_user_id, notes>>

NextPaymentAlerts ==
    \/ UserAddUserP1
    \/ LoginPage_loginP1
    \/ RecurringPaymentAddOwn
    \/ Midnight
    \/ check_alerts_alert

SpecPaymentAlerts == Init /\ [][NextPaymentAlerts]_vars

NextBudgetAlerts ==
    \/ UserAddUserP1
    \/ LoginPage_loginP1
    \/ ExpenseAdd50
    \/ BudgetSetMonthlyBudget50
    \/ Midnight
    \/ check_alerts_alert

SpecBudgetAlerts == Init /\ [][NextBudgetAlerts]_vars

\* The number of message boxes of the kind given shown for a payment.
NotesFor(ns, kind, payment_id) ==
    Cardinality({i \in DOMAIN ns : ns[i].kind = kind /\ ns[i].payment_id = payment_id})

PaymentNoteKinds == {"Payment Due Tomorrow", "Payment Due Today", "Error"}

\* C6: when the evaluator runs on day T for the logged-in user, every recurring
\* payment of that user due before T has, after the pass, its persisted due_date
\* advanced by the rollover rule, and no message is shown for it.
C6_OverdueRollover ==
    [][(last'.op = "alert" /\ current_user_id # None) =>
         \A p \in RecurringPayments :
            (p.user_id = current_user_id /\ StrLess(p.due_date, strftime(today))) =>
               /\ \E q \in RecurringPayments' :
                     /\ q.id = p.id
                     /\ q.due_date =
                          strftime(calculate_next_due_date(strptime(p.due_date), p.frequency))
               /\ \A kind \in PaymentNoteKinds : NotesFor(notes', kind, p.id) = 0]_vars

\* C7: in one pass on day T each payment of the logged-in user due on T gets
\* exactly one "due today" message, each due on T+1 exactly one "due tomorrow"
\* message, whatever other payments the user has; the others get none.
C7_DueNotifications ==
    [][(last'.op = "alert" /\ current_user_id # None) =>
         \A p \in RecurringPayments :
            p.user_id = current_user_id =>
               /\ NotesFor(notes', "Payment Due Today", p.id) =
                    (IF p.due_date = strftime(today) THEN 1 ELSE 0)
               /\ NotesFor(notes', "Payment Due Tomorrow", p.id) =
                    (IF p.due_date = strftime(plus_days(today, 1)) THEN 1 ELSE 0)]_vars

\* C8: a pass shows "Budget Exceeded" if and only if a user is logged in, a
\* budget is set for that user and the current month, and the sum of that
\* user's expenses dated on or after day 1 of the current month is strictly
\* greater than it.
C8_BudgetThreshold ==
    [][last'.op = "alert" =>
         LET exceeded == {i \in DOMAIN notes' : notes'[i].kind = "Budget Exceeded"}
             first == <<today.year, today.month, 1>>
             spending == SumAmount({e \in Expenses :
                                      /\ e.user_id = current_user_id
                                      /\ ~ StrLess(e.date, first)})
         IN
         /\ Cardinality(exceeded) <= 1
         /\ exceeded # {} <=>
              /\ current_user_id # None
              /\ \E b \in Budget :
                    /\ b.user_id = current_user_id
                    /\ b.month = <<today.year, today.month>>
                    /\ spending > b.amount
         /\ store' = store]_vars

\* A pass with spending equal to the budget (an expense of 1 February against
\* the budget of February; the expense of 31 January is not counted): nothing
\* is shown.
C8_Witness ==
    /\ last.op = "alert"
    /\ notes = <<>>
    /\ current_user_id = 1
    /\ today.month = 2
    /\ \E b \in Budget : b.user_id = 1 /\ b.month = <<2024, 2>> /\ b.amount = 50
    /\ \E e \in Expenses : e.user_id = 1 /\ e.date = <<2024, 2, 1>> /\ e.amount = 50
    /\ \E e \in Expenses : e.user_id = 1 /\ e.date = <<2024, 1, 31>>
    /\ Cardinality(Expenses) = 2

(***************************************************************************)
(* The rollover rule as a pure function: the inputs are drawn by Init, the *)
(* action applies the function.                                            *)
(***************************************************************************)
InitRollover ==
    /\ InitApp
    /\ \E dt \in ValidDates, f \in Frequencies :
          last = [op |-> "input", date |-> dt, frequency |-> f]

ApplyRollover ==
    /\ last.op = "input"
    /\ UNCHANGED window
    /\ last' = [op |-> "calculate_next_due_date",
                date |-> last.date,
                frequency |-> last.frequency,
                result |-> calculate_next_due_date(last.date, last.frequency)]
    /\ UNCHANGED <<store, current_user_id, today, notes>>

NextRollover == ApplyRollover

SpecRollover == InitRollover /\ [][NextRollover]_vars

\* C4: Monthly returns the date in the next calendar month with day min(d, 28);
\* December rolls over to January of the next year.
C4_MonthlyRollover ==
    (last.op = "calculate_next_due_date" /\ last.frequency = "Monthly") =>
        LET dt == last.date IN
        last.result =
            [year  |-> IF dt.month = 12 THEN dt.year + 1 ELSE dt.year,
             month |-> IF dt.month = 12 THEN 1 ELSE dt.month + 1,
             day   |-> IF dt.day <= 28 THEN dt.day ELSE 28]

\* 2024-01-31 -> 2024-02-28, the clamped case.
C4_Witness ==
    /\ last.op = "calculate_next_due_date"
    /\ last.frequency = "Monthly"
    /\ last.date = [year |-> 2024, month |-> 1, day |-> 31]
    /\ last.result = [year |-> 2024, month |-> 2, day |-> 28]

\* C5: Yearly returns the same month and day in year y+1 for every valid date,
\* 29 February of a leap year included, without failing.
C5_YearlyRollover ==
    (last.op = "calculate_next_due_date" /\ last.frequency = "Yearly") =>
        last.result = [year  |-> last.date.year + 1,
                       month |-> last.date.month,
                       day   |-> last.date.day]

(***************************************************************************)
(* models.py: class Category                                               *)
(***************************************************************************)
CategoryNames == {"food", "fuel"}

\* SQLite's TEXT comparison of two category names.
NameLeq(a, b) == a = b \/ (a = "food" /\ b = "fuel")

\* Category.add: the INSERT names the column name only, so the new row's user_id
\* is NULL.  user_id is NOT NULL and a foreign key: the sqlite3.IntegrityError
\* of either constraint is re-raised as ValueError "Category already exists.".
Category_add(C, seq, U, name) ==
    IF name = ""
    THEN [error |-> "ValueError", message |-> "Category name must be a non-empty string.",
          rows |-> C, seq |-> seq]
    ELSE LET user_id == None IN
         IF user_id # None /\ ForeignKeyOk(U, user_id)
         THEN [error |-> "none", message |-> "",
               rows |-> C \cup {[id |-> seq + 1, name |-> name, user_id |-> user_id]},
               seq |-> seq + 1]
         ELSE [error |-> "ValueError", message |-> "Category already exists.",
               rows |-> C, seq |-> seq]

\* Category.get_all: the lists of names WHERE user_id = ? ORDER BY name ASC.
Category_get_all(C, user_id) ==
    LET rows == {c \in C : c.user_id = user_id} IN
    { [i \in DOMAIN f |-> f[i].name] :
        f \in { g \in Listings(rows) :
                  \A i, j \in DOMAIN g : i < j => NameLeq(g[i].name, g[j].name) } }

\* DELETE FROM Categories WHERE name = ?.
Category_delete_byname(C, name, user_id) ==
    [error |-> "none", rows |-> {c \in C : c.name # name}]

\* Category.delete: DELETE FROM Categories WHERE name = ? AND user_id = ?.
Category_delete(C, name, user_id) ==
    [error |-> "none",
     rows  |-> {c \in C : ~(c.name = name /\ c.user_id = user_id)}]

\* name in Category.get_all(user_id)
InCategories(C, user_id, name) ==
    \E lst \in Category_get_all(C, user_id) : \E i \in DOMAIN lst : lst[i] = name

(***************************************************************************)
(* gui.py: CategoryPage.add_category, AddExpensePage.save_expense          *)
(***************************************************************************)
TypedCategoryNames == {"", " ", "food"}

CategoryPage_add_category ==
    \E typed_name \in TypedCategoryNames :
        LET name == strip(typed_name)
            r == Category_add(Categories, sqlite_sequence.Categories, Users, name)
        IN
        /\ IF name # ""
           THEN /\ r.seq <= MaxRowId
                /\ Categories' = r.rows
                /\ sqlite_sequence' = [sqlite_sequence EXCEPT !.Categories = r.seq]
                /\ notes' = IF r.error = "none" THEN <<[kind |-> "Success"]>>
                            ELSE <<[kind |-> "Input Error"]>>
                /\ UNCHANGED window
                /\ last' = [op |-> "CategoryPage.add_category", typed |-> typed_name,
                            name |-> name, error |-> r.error, message |-> r.message]
           ELSE /\ notes' = <<[kind |-> "Input Error"]>>
                /\ UNCHANGED window
                /\ last' = [op |-> "CategoryPage.add_category", typed |-> typed_name,
                            name |-> name, error |-> "none",
                            message |-> "Category name cannot be empty."]
                /\ UNCHANGED <<Categories, sqlite_sequence>>
        /\ UNCHANGED <<Users, Expenses, RecurringPayments, Budget, current_user_id, today>>

\* The text of an amount entry: a number, or something float() rejects.
Number(n) == [numeric |-> TRUE, value |-> n]
NotANumber == [numeric |-> FALSE, value |-> 0]

SaveDates == {<<2024, 2, 1>>, <<2024, 2, 30>>}
SaveCategories == {"", "food"}
SaveAmounts == {Number(0), Number(50), NotANumber}

AddExpensePage_save_expense ==
    \E date_str \in SaveDates, typed_category \in SaveCategories,
       amount_text \in SaveAmounts :
        LET category == strip(typed_category)
            r == Expense_add(Expenses, sqlite_sequence.Expenses, Users,
                             date_str, category, amount_text.value, current_user_id)
            saved == /\ current_user_id # None
                     /\ strptime(date_str) # RaisedValueError
                     /\ category # ""
                     /\ InCategories(Categories, current_user_id, category)
                     /\ amount_text.numeric
                     /\ amount_text.value > 0
        IN
        /\ IF saved
           THEN /\ r.seq <= MaxRowId
                /\ Expenses' = r.rows
                /\ sqlite_sequence' = [sqlite_sequence EXCEPT !.Expenses = r.seq]
                /\ notes' = IF r.error = "none" THEN <<[kind |-> "Success"]>>
                            ELSE <<[kind |-> "Error"]>>
           ELSE /\ notes' = IF current_user_id = None
                            THEN <<[kind |-> "Authentication Error"]>>
                            ELSE <<[kind |-> "Input Error"]>>
                /\ UNCHANGED <<Expenses, sqlite_sequence>>
        /\ UNCHANGED window
        /\ last' = [op |-> "AddExpensePage.save_expense", date |-> date_str,
                    category |-> category, amount |-> amount_text]
        /\ UNCHANGED <<Users, RecurringPayments, Budget, Categories, current_user_id, today>>

\* What a user can do from the login, register, Categories and Add Expense pages.
NextCategoryGui ==
    \/ RegisterPage_registerP1
    \/ LoginPage_loginP1
    \/ NavigationBar_logout
    \/ CategoryPage_add_category
    \/ AddExpensePage_save_expense

SpecCategoryGui == Init /\ [][NextCategoryGui]_vars

\* C11: adding a blank category name fails and stores nothing; adding a
\* non-blank name (the Categories table has no uniqueness constraint, so no
\* duplicate error is due) creates a row owned by the logged-in user, whose
\* Category.get_all then returns the name.
C11_CategoryAdd ==
    [][(last'.op = "CategoryPage.add_category" /\ current_user_id # None) =>
         IF last'.name = ""
         THEN Categories' = Categories /\ notes' = <<[kind |-> "Input Error"]>>
         ELSE /\ last'.error = "none"
              /\ \E c \in Categories' \ Categories :
                    c.name = last'.name /\ c.user_id = current_user_id
              /\ InCategories(Categories', current_user_id, last'.name)]_vars

\* C12: a registered, logged-in user who has just added a category on the
\* Categories page and then saves an expense in it with a valid date and an
\* amount > 0 finds the expense in Expense.get_all.
C12_RecordExpense ==
    [][(/\ last.op = "CategoryPage.add_category"
        /\ last.name # ""
        /\ current_user_id # None
        /\ last'.op = "AddExpensePage.save_expense"
        /\ last'.category = last.name
        /\ strptime(last'.date) # RaisedValueError
        /\ last'.amount.numeric
        /\ last'.amount.value > 0) =>
         \E lst \in Expense_get_all(Expenses', current_user_id) :
            \E i \in DOMAIN lst :
               /\ lst[i][2] = last'.date
               /\ lst[i][3] = last'.category
               /\ lst[i][4] = last'.amount.value]_vars

\* C13: Expense.add for an existing user adds exactly one row, with the given
\* values and an id no row had, to that user's Expense.get_all; the rows the
\* table held stay as they were, so the user's earlier entries and every other
\* user's list are unchanged; the list is ordered by date, most recent first.
C13_ExpenseAdd ==
    [][(last'.op = "Expense.add" /\ \E u \in Users : u.id = last'.user_id) =>
         LET u == last'.user_id
             new == Expenses' \ Expenses
         IN
         /\ last'.error = "none"
         /\ Expenses \subseteq Expenses'
         /\ Cardinality(new) = 1
         /\ \A e \in new :
               /\ e.date = last'.date /\ e.category = last'.category
               /\ e.amount = last'.amount /\ e.user_id = u
               /\ \A o \in Expenses : o.id # e.id
         /\ \A v \in UserIdArgs \ {u} :
               Expense_get_all(Expenses', v) = Expense_get_all(Expenses, v)
         /\ \A lst \in Expense_get_all(Expenses', u) :
               /\ \A old \in Expense_get_all(Expenses, u) :
                     /\ Len(lst) = Len(old) + 1
                     /\ \A k \in DOMAIN old : \E i \in DOMAIN lst : lst[i] = old[k]
               /\ \A e \in new :
                     Cardinality({i \in DOMAIN lst : lst[i][1] = e.id}) = 1
               /\ \A i, j \in DOMAIN lst :
                     i < j => days_between(strptime(lst[i][2]), strptime(lst[j][2])) >= 0]_vars

\* An add has just given a user a second expense, of another date than the first.
C13_Witness ==
    /\ last.op = "Expense.add"
    /\ last.error = "none"
    /\ \E e1, e2 \in Expenses :
          /\ e1.user_id = last.user_id /\ e2.user_id = last.user_id
          /\ e1.date # e2.date

(***************************************************************************)
(* Expense.get_spending_since as a call                                    *)
(***************************************************************************)
ExpenseGetSpendingSince ==
    \E start_date \in QueryDates, user_id \in UserIdArgs :
        /\ UNCHANGED window
        /\ last' = [op |-> "Expense.get_spending_since", start_date |-> start_date,
                    user_id |-> user_id,
                    result |-> Expense_get_spending_since(Expenses, start_date, user_id)]
        /\ notes' = <<>>
        /\ UNCHANGED <<store, current_user_id, today>>

NextExpenseQueries ==
    \/ UserAddUserP1
    \/ ExpenseAdd
    \/ ExpenseGetSpendingSince

SpecExpenseQueries == Init /\ [][NextExpenseQueries]_vars

\* C14: Expense.get_spending_since(start, u) is the sum of the amounts of u's
\* expenses dated on or after start in the calendar (an expense dated start
\* counts, one dated the day before does not), and 0 when there is none.
C14_SpendingSince ==
    (last.op = "Expense.get_spending_since") =>
        LET since == {e \in Expenses :
                        /\ e.user_id = last.user_id
                        /\ days_between(strptime(e.date), strptime(last.start_date)) >= 0}
        IN
        /\ last.result = SumAmount(since)
        /\ since = {} => last.result = 0

\* The user has an expense dated start and one dated the day before; the call
\* returned the amount of the first alone.
C14_Witness ==
    /\ last.op = "Expense.get_spending_since"
    /\ \E e1, e2 \in Expenses :
          /\ e1.user_id = last.user_id /\ e2.user_id = last.user_id
          /\ e1.date = last.start_date
          /\ days_between(strptime(last.start_date), strptime(e2.date)) = 1
          /\ last.result = e1.amount

(***************************************************************************)
(* models.py: RecurringPayment.delete, RecurringPayment.mark_as_paid       *)
(***************************************************************************)
\* The rows a WHERE id = ? AND user_id = ? clause on RecurringPayments selects.
RecurringPayment_select(RP, payment_id, user_id) ==
    {p \in RP : p.id = payment_id /\ p.user_id = user_id}

\* RecurringPayment.delete: ValueError unless the ownership SELECT finds the row.
RecurringPayment_delete(RP, payment_id, user_id) ==
    IF RecurringPayment_select(RP, payment_id, user_id) = {}
    THEN [error |-> "ValueError", rows |-> RP]
    ELSE [error |-> "none", rows |-> RP \ RecurringPayment_select(RP, payment_id, user_id)]

\* RecurringPayment.mark_as_paid without the ownership SELECT: the frequency is
\* read and the due_date written WHERE id = ?.
RecurringPayment_mark_as_paid_noowner(RP, payment_id, payment_date, user_id) ==
    IF \A p \in RP : p.id # payment_id
    THEN [error |-> "ValueError", raised_by |-> "ownership", rows |-> RP]
    ELSE LET row == CHOOSE p \in RP : p.id = payment_id
             paid == strptime(payment_date)
             next_due_date == IF paid = RaisedValueError THEN RaisedValueError
                              ELSE calculate_next_due_date(paid, row.frequency)
         IN IF next_due_date = RaisedValueError
            THEN [error |-> "ValueError", raised_by |-> "date", rows |-> RP]
            ELSE [error |-> "none", raised_by |-> "",
                  rows |-> (RP \ {row}) \cup
                           {[row EXCEPT !.due_date = strftime(next_due_date)]}]

\* RecurringPayment.mark_as_paid: ValueError unless the ownership SELECT finds the
\* row; a ValueError of strptime or of calculate_next_due_date leaves the
\* function before the UPDATE; otherwise due_date is set WHERE id = ? AND
\* user_id = ?.
RecurringPayment_mark_as_paid(RP, payment_id, payment_date, user_id) ==
    IF RecurringPayment_select(RP, payment_id, user_id) = {}
    THEN [error |-> "ValueError", raised_by |-> "ownership", rows |-> RP]
    ELSE LET row == CHOOSE p \in RecurringPayment_select(RP, payment_id, user_id) : TRUE
             paid == strptime(payment_date)
             next_due_date == IF paid = RaisedValueError THEN RaisedValueError
                              ELSE calculate_next_due_date(paid, row.frequency)
         IN IF next_due_date = RaisedValueError
            THEN [error |-> "ValueError", raised_by |-> "date", rows |-> RP]
            ELSE [error |-> "none", raised_by |-> "",
                  rows |-> (RP \ {row}) \cup
                           {[row EXCEPT !.due_date = strftime(next_due_date)]}]

\* payment_date arguments: a leap day and the day after.
PaidDates == {<<2024, 2, 29>>, <<2024, 3, 1>>}

RecurringPaymentDelete ==
    \E payment_id \in RowIdArgs, user_id \in UserIdArgs :
        LET r == RecurringPayment_delete(RecurringPayments, payment_id, user_id) IN
        /\ RecurringPayments' = r.rows
        /\ UNCHANGED window
        /\ last' = [op |-> "RecurringPayment.delete", id |-> payment_id,
                    user_id |-> user_id, error |-> r.error]
        /\ notes' = <<>>
        /\ UNCHANGED <<Users, Expenses, Budget, Categories, sqlite_sequence,
                       current_user_id, today>>

\* A direct call of RecurringPayment.mark_as_paid, the payment_date drawn from
\* the set given.
RecurringPaymentMarkAsPaidOn(paid_dates) ==
    \E payment_id \in RowIdArgs, payment_date \in paid_dates, user_id \in UserIdArgs :
        LET r == RecurringPayment_mark_as_paid(RecurringPayments, payment_id,
                                               payment_date, user_id) IN
        /\ RecurringPayments' = r.rows
        /\ UNCHANGED window
        /\ last' = [op |-> "RecurringPayment.mark_as_paid", id |-> payment_id,
                    payment_date |-> payment_date, user_id |-> user_id,
                    error |-> r.error, raised_by |-> r.raised_by]
        /\ notes' = <<>>
        /\ UNCHANGED <<Users, Expenses, Budget, Categories, sqlite_sequence,
                       current_user_id, today>>

RecurringPaymentMarkAsPaid == RecurringPaymentMarkAsPaidOn(PaidDates)

\* RecurringPayment.add with the due date 2024-02-28.
RecurringPaymentAddFeb28 == RecurringPaymentAddOf({<<2024, 2, 28>>}, UserIdArgs)

NextPayments ==
    \/ UserAddUserP1
    \/ RecurringPaymentAddFeb28
    \/ RecurringPaymentDelete
    \/ RecurringPaymentMarkAsPaid

SpecPayments == Init /\ [][NextPayments]_vars

\* C15: RecurringPayment.delete and RecurringPayment.mark_as_paid called with an
\* id and a user_id that no row has together raise ValueError and leave every
\* RecurringPayments row as it was.
C15_PaymentOwnership ==
    [][(/\ last'.op \in {"RecurringPayment.delete", "RecurringPayment.mark_as_paid"}
        /\ \A p \in RecurringPayments :
              ~(p.id = last'.id /\ p.user_id = last'.user_id)) =>
         /\ last'.error = "ValueError"
         /\ RecurringPayments' = RecurringPayments]_vars

\* mark_as_paid was refused for a payment that exists and is another user's.
C15_Witness ==
    /\ last.op = "RecurringPayment.mark_as_paid"
    /\ last.error = "ValueError"
    /\ \E p \in RecurringPayments, u \in Users :
          p.id = last.id /\ p.user_id # last.user_id /\ u.id = last.user_id

\* C16: mark_as_paid on a payment the user owns sets its due_date to the
\* rollover of payment_date under the stored frequency (Monthly: the next
\* month, day min(d, 28); Yearly: the same month and day a year later) and
\* leaves its name, amount and frequency and every other payment unchanged.
C16_MarkAsPaid ==
    [][(/\ last'.op = "RecurringPayment.mark_as_paid"
        /\ \E p \in RecurringPayments :
              p.id = last'.id /\ p.user_id = last'.user_id) =>
         LET p == CHOOSE q \in RecurringPayments :
                     q.id = last'.id /\ q.user_id = last'.user_id
             paid == last'.payment_date
             rollover ==
                 IF p.frequency = "Monthly"
                 THEN <<IF paid[2] = 12 THEN paid[1] + 1 ELSE paid[1],
                        IF paid[2] = 12 THEN 1 ELSE paid[2] + 1,
                        IF paid[3] < 28 THEN paid[3] ELSE 28>>
                 ELSE <<paid[1] + 1, paid[2], paid[3]>>
         IN RecurringPayments' =
               (RecurringPayments \ {p}) \cup {[p EXCEPT !.due_date = rollover]}]_vars

(***************************************************************************)
(* gui.py: ViewExpensesPage.edit_expense (save_changes), delete_expense    *)
(***************************************************************************)
\* The calls Expense.update(expense_id, new_date_str, new_category, new_amount)
\* and Expense.delete(expense_id) of gui.py give four arguments to the five
\* parameters of Expense.update and one to the two of Expense.delete: Python
\* raises TypeError (missing positional argument 'user_id') before the body
\* runs, and the table is not touched.
gui_Expense_update(E, expense_id, new_date, new_category, new_amount) ==
    [error |-> "TypeError", rows |-> E]

gui_Expense_delete(E, expense_id) ==
    [error |-> "TypeError", rows |-> E]

\* ViewExpensesPage.PAGE_SIZE
PAGE_SIZE == 20

\* expenses[start_index:end_index]: a Python slice, cut off at the end of the
\* list and empty from there on.
Slice(list, start_index, end_index) ==
    SubSeq(list, start_index + 1, IF end_index < Len(list) THEN end_index ELSE Len(list))

\* A display_page that shows the first PAGE_SIZE rows whatever the page.
display_page_first(expenses, page_no) == Slice(expenses, 0, PAGE_SIZE)

\* ViewExpensesPage.display_page: the rows put into the (cleared) tree, those
\* of page page_no.
display_page(expenses, page_no) ==
    LET start_index == (page_no - 1) * PAGE_SIZE
        end_index == start_index + PAGE_SIZE
    IN Slice(expenses, start_index, end_index)

\* What refresh, next_page and prev_page fetch: Expense.get_all of the user
\* logged in, [] when there is none.
FetchedExpenses(E, user_id) ==
    IF user_id # None THEN Expense_get_all(E, user_id) ELSE {<<>>}

\* ViewExpensesPage.refresh on the table E.
ViewExpensesPage_refresh(E) ==
    \E expenses \in FetchedExpenses(E, current_user_id) :
        LET pages == (Len(expenses) + PAGE_SIZE - 1) \div PAGE_SIZE IN
        /\ total_pages' = IF pages > 1 THEN pages ELSE 1
        /\ current_page' = 1
        /\ tree' = display_page(expenses, 1)

\* The ids of the rows the tree of a page shows for the logged-in user, and
\* None for "no row selected".
ExpenseSelections ==
    {None} \cup (IF current_user_id = None THEN {}
                 ELSE {e.id : e \in Expense_select(Expenses, current_user_id)})

EditDates == {<<2024, 3, 1>>, <<2024, 2, 30>>}

\* The Save Changes button of the edit window opened on the selected row, the
\* row, the date and the amount drawn from the sets given.
ViewExpensesPage_save_changesWith(selections, dates, amounts) ==
    \E selected \in selections \ {None}, new_date_str \in dates,
       typed_category \in SaveCategories, amount_text \in amounts :
        LET new_category == strip(typed_category)
            valid == /\ strptime(new_date_str) # RaisedValueError
                     /\ new_category # ""
                     /\ current_user_id # None
                     /\ InCategories(Categories, current_user_id, new_category)
                     /\ amount_text.numeric
                     /\ amount_text.value > 0
            r == gui_Expense_update(Expenses, selected, new_date_str, new_category,
                                    amount_text.value)
        IN
        /\ IF valid
           THEN /\ Expenses' = r.rows
                /\ notes' = IF r.error = "none" THEN <<[kind |-> "Success"]>>
                            ELSE <<[kind |-> "Error"]>>
           ELSE /\ notes' = <<[kind |-> "Input Error"]>>
                /\ UNCHANGED Expenses
        /\ IF valid /\ r.error = "none"
           THEN ViewExpensesPage_refresh(r.rows)
           ELSE UNCHANGED page
        /\ UNCHANGED <<after_callbacks, frame>>
        /\ last' = [op |-> "ViewExpensesPage.save_changes", selected |-> selected,
                    date |-> new_date_str, category |-> new_category,
                    amount |-> amount_text, valid |-> valid]
        /\ UNCHANGED <<Users, RecurringPayments, Budget, Categories, sqlite_sequence,
                       current_user_id, today>>

ViewExpensesPage_save_changes ==
    ViewExpensesPage_save_changesWith(ExpenseSelections, EditDates, SaveAmounts)

\* The Delete button, the selected row drawn from the set given.
ViewExpensesPage_delete_expenseWith(selections) ==
    \E selected \in selections, confirm \in BOOLEAN :
        LET r == gui_Expense_delete(Expenses, selected) IN
        /\ IF selected = None
           THEN /\ notes' = <<[kind |-> "Selection Error"]>>
                /\ UNCHANGED Expenses
           ELSE IF confirm
           THEN /\ Expenses' = r.rows
                /\ notes' = IF r.error = "none" THEN <<[kind |-> "Success"]>>
                            ELSE <<[kind |-> "Error"]>>
           ELSE /\ notes' = <<>>
                /\ UNCHANGED Expenses
        /\ IF selected # None /\ confirm /\ r.error = "none"
           THEN ViewExpensesPage_refresh(r.rows)
           ELSE UNCHANGED page
        /\ UNCHANGED <<after_callbacks, frame>>
        /\ last' = [op |-> "ViewExpensesPage.delete_expense", selected |-> selected,
                    confirm |-> confirm]
        /\ UNCHANGED <<Users, RecurringPayments, Budget, Categories, sqlite_sequence,
                       current_user_id, today>>

ViewExpensesPage_delete_expense == ViewExpensesPage_delete_expenseWith(ExpenseSelections)

\* The View Expenses page of a logged-in user.  The Add Expense page stores
\* nothing (no category exists), so the expenses come from Expense.add calls.
NextExpenseGui ==
    \/ UserAddUserP1
    \/ LoginPage_loginP1
    \/ ExpenseAdd50
    \/ ViewExpensesPage_save_changes
    \/ ViewExpensesPage_delete_expense

SpecExpenseGui == Init /\ [][NextExpenseGui]_vars

\* C17: when the logged-in user selects one of their own expenses on the View
\* Expenses page, saving an edit with a valid date, a category of theirs and an
\* amount > 0 overwrites the row's date, category and amount, and confirming a
\* delete removes the row.
C17_OwnerEditDelete ==
    [][/\ (/\ last'.op = "ViewExpensesPage.save_changes"
           /\ last'.valid) =>
             \E e \in Expenses :
                /\ e.id = last'.selected /\ e.user_id = current_user_id
                /\ Expenses' = (Expenses \ {e}) \cup
                      {[e EXCEPT !.date = last'.date, !.category = last'.category,
                                 !.amount = last'.amount.value]}
       /\ (/\ last'.op = "ViewExpensesPage.delete_expense"
           /\ last'.selected # None
           /\ last'.confirm) =>
             \E e \in Expenses :
                /\ e.id = last'.selected /\ e.user_id = current_user_id
                /\ Expenses' = Expenses \ {e}]_vars

(***************************************************************************)
(* gui.py: RecurringPaymentsPage.add_payment, delete_payment, mark_as_paid *)
(***************************************************************************)
\* RecurringPayment.delete(payment_id) and RecurringPayment.mark_as_paid(
\* payment_id, payment_date_str) as gui.py calls them: the user_id argument is
\* missing, Python raises TypeError before the body runs.
gui_RecurringPayment_delete(RP, payment_id) ==
    [error |-> "TypeError", rows |-> RP]

gui_RecurringPayment_mark_as_paid(RP, payment_id, payment_date) ==
    [error |-> "TypeError", rows |-> RP]

PaymentSelections ==
    {None} \cup (IF current_user_id = None THEN {}
                 ELSE {p.id : p \in {q \in RecurringPayments :
                                        q.user_id = current_user_id}})

TypedPaymentNames == {"", "rent"}
TypedFrequencies == {"", "Monthly", "Yearly"}
TypedPaymentAmounts == {Number(0), Number(100), NotANumber}
TypedDueDates == {<<2024, 2, 29>>, <<2024, 2, 30>>}

\* add_payment does not look at current_user_id: with nobody logged in the
\* INSERT has user_id NULL and raises sqlite3.IntegrityError.
RecurringPaymentsPage_add_paymentWith(typed_names, typed_amounts, typed_dates) ==
    \E typed_name \in typed_names, amount_text \in typed_amounts,
       due_date_str \in typed_dates, frequency \in TypedFrequencies :
        LET name == strip(typed_name)
            valid == /\ name # "" /\ frequency # ""
                     /\ amount_text.numeric /\ amount_text.value > 0
                     /\ strptime(due_date_str) # RaisedValueError
            r == RecurringPayment_add(RecurringPayments, sqlite_sequence.RecurringPayments,
                                      Users, name, amount_text.value, due_date_str,
                                      frequency, current_user_id)
        IN
        /\ IF valid
           THEN /\ r.seq <= MaxRowId
                /\ RecurringPayments' = r.rows
                /\ sqlite_sequence' = [sqlite_sequence EXCEPT !.RecurringPayments = r.seq]
                /\ notes' = IF r.error = "none" THEN <<[kind |-> "Success"]>>
                            ELSE <<[kind |-> "Error"]>>
           ELSE /\ notes' = <<[kind |-> "Input Error"]>>
                /\ UNCHANGED <<RecurringPayments, sqlite_sequence>>
        /\ UNCHANGED window
        /\ last' = [op |-> "RecurringPaymentsPage.add_payment", name |-> name,
                    amount |-> amount_text, due_date |-> due_date_str,
                    frequency |-> frequency, valid |-> valid]
        /\ UNCHANGED <<Users, Expenses, Budget, Categories, current_user_id, today>>

RecurringPaymentsPage_add_payment ==
    RecurringPaymentsPage_add_paymentWith(TypedPaymentNames, TypedPaymentAmounts,
                                          TypedDueDates)

RecurringPaymentsPage_delete_payment ==
    \E selected \in PaymentSelections, confirm \in BOOLEAN :
        LET r == gui_RecurringPayment_delete(RecurringPayments, selected) IN
        /\ IF selected = None
           THEN /\ notes' = <<[kind |-> "Selection Error"]>>
                /\ UNCHANGED RecurringPayments
           ELSE IF confirm
           THEN /\ RecurringPayments' = r.rows
                /\ notes' = IF r.error = "none" THEN <<[kind |-> "Success"]>>
                            ELSE <<[kind |-> "Error"]>>
           ELSE /\ notes' = <<>>
                /\ UNCHANGED RecurringPayments
        /\ UNCHANGED window
        /\ last' = [op |-> "RecurringPaymentsPage.delete_payment", selected |-> selected,
                    confirm |-> confirm]
        /\ UNCHANGED <<Users, Expenses, Budget, Categories, sqlite_sequence,
                       current_user_id, today>>

RecurringPaymentsPage_mark_as_paid ==
    \E selected \in PaymentSelections :
        LET payment_date_str == strftime(today)
            r == gui_RecurringPayment_mark_as_paid(RecurringPayments, selected,
                                                   payment_date_str) IN
        /\ IF selected = None
           THEN /\ notes' = <<[kind |-> "Selection Error"]>>
                /\ UNCHANGED RecurringPayments
           ELSE /\ RecurringPayments' = r.rows
                /\ notes' = IF r.error = "none" THEN <<[kind |-> "Success"]>>
                            ELSE <<[kind |-> "Error"]>>
        /\ UNCHANGED window
        /\ last' = [op |-> "RecurringPaymentsPage.mark_as_paid", selected |-> selected,
                    payment_date |-> payment_date_str]
        /\ UNCHANGED <<Users, Expenses, Budget, Categories, sqlite_sequence,
                       current_user_id, today>>

NextPaymentGui ==
    \/ RegisterPage_registerP1
    \/ LoginPage_loginP1
    \/ NavigationBar_logout
    \/ RecurringPaymentsPage_add_payment
    \/ RecurringPaymentsPage_delete_payment
    \/ RecurringPaymentsPage_mark_as_paid

SpecPaymentGui == Init /\ [][NextPaymentGui]_vars

\* C18: when the logged-in user selects one of their own recurring payments on
\* the Recurring Payments page, Mark as Paid advances its due_date by the
\* rollover of today's date under the payment's frequency, and a confirmed
\* delete removes the row.
C18_OwnerPayDelete ==
    [][/\ (/\ last'.op = "RecurringPaymentsPage.mark_as_paid"
           /\ last'.selected # None) =>
             \E p \in RecurringPayments :
                /\ p.id = last'.selected /\ p.user_id = current_user_id
                /\ RecurringPayments' = (RecurringPayments \ {p}) \cup
                      {[p EXCEPT !.due_date =
                            strftime(calculate_next_due_date(today, p.frequency))]}
       /\ (/\ last'.op = "RecurringPaymentsPage.delete_payment"
           /\ last'.selected # None
           /\ last'.confirm) =>
             \E p \in RecurringPayments :
                /\ p.id = last'.selected /\ p.user_id = current_user_id
                /\ RecurringPayments' = RecurringPayments \ {p}]_vars

(***************************************************************************)
(* Category.delete on a database that holds categories                     *)
(***************************************************************************)
\* Category.add of this program stores no row, so the rows of Categories are
\* those the database file holds when the program starts (init_db creates a
\* table only if it is absent).  The tables of at most MaxRowId rows, ids
\* 1..k, each row a name of CategoryNames owned by user 1 or 2.
CategoryTables ==
    UNION { { {[id |-> i, name |-> f[i][1], user_id |-> f[i][2]] : i \in 1..k} :
                f \in [1..k -> CategoryNames \X {1, 2}] } : k \in 0..MaxRowId }

\* The program starts on a database file with the users alice and bob and a
\* table of categories.
InitCategories ==
    /\ Users = {[id |-> 1, username |-> "alice", password |-> "p1"],
                [id |-> 2, username |-> "bob", password |-> "p1"]}
    /\ Expenses = {}
    /\ RecurringPayments = {}
    /\ Budget = {}
    /\ Categories \in CategoryTables
    /\ sqlite_sequence = [Users |-> 2, Expenses |-> 0, RecurringPayments |-> 0,
                          Budget |-> 0, Categories |-> Cardinality(Categories)]
    /\ current_user_id = None
    /\ today = StartDay
    /\ notes = <<>>
    /\ InitWindow
    /\ last = [op |-> "init"]

\* A direct call of Category.add.
CategoryAdd ==
    \E name \in CategoryNames \cup {""} :
        LET r == Category_add(Categories, sqlite_sequence.Categories, Users, name) IN
        /\ r.seq <= MaxRowId
        /\ Categories' = r.rows
        /\ sqlite_sequence' = [sqlite_sequence EXCEPT !.Categories = r.seq]
        /\ UNCHANGED window
        /\ last' = [op |-> "Category.add", name |-> name, error |-> r.error,
                    message |-> r.message]
        /\ notes' = <<>>
        /\ UNCHANGED <<Users, Expenses, RecurringPayments, Budget, current_user_id, today>>

\* A direct call of Category.delete; deleted is the number of rows the DELETE
\* matched.
CategoryDelete ==
    \E name \in CategoryNames, user_id \in UserIdArgs :
        LET r == Category_delete(Categories, name, user_id) IN
        /\ Categories' = r.rows
        /\ UNCHANGED window
        /\ last' = [op |-> "Category.delete", name |-> name, user_id |-> user_id,
                    error |-> r.error,
                    deleted |-> Cardinality(Categories) - Cardinality(r.rows)]
        /\ notes' = <<>>
        /\ UNCHANGED <<Users, Expenses, RecurringPayments, Budget, sqlite_sequence,
                       current_user_id, today>>

\* Category.delete(selected_category) as gui.py calls it: the user_id argument
\* is missing, Python raises TypeError before the body runs.
gui_Category_delete(C, name) ==
    [error |-> "TypeError", rows |-> C]

\* What curselection() can give on the Categories page: nothing, or one of the
\* names the listbox shows.
CategorySelections ==
    {<<>>} \cup (IF current_user_id = None THEN {}
                 ELSE {<<c.name>> : c \in {d \in Categories : d.user_id = current_user_id}})

CategoryPage_delete_category ==
    \E selected_indices \in CategorySelections, confirm \in BOOLEAN :
        /\ IF selected_indices = <<>>
           THEN /\ notes' = <<[kind |-> "Selection Error"]>>
                /\ UNCHANGED Categories
           ELSE IF confirm
           THEN LET r == gui_Category_delete(Categories, selected_indices[1]) IN
                /\ Categories' = r.rows
                /\ notes' = IF r.error = "none" THEN <<[kind |-> "Success"]>>
                            ELSE <<[kind |-> "Error"]>>
           ELSE /\ notes' = <<>>
                /\ UNCHANGED Categories
        /\ UNCHANGED window
        /\ last' = [op |-> "CategoryPage.delete_category",
                    selected |-> selected_indices, confirm |-> confirm]
        /\ UNCHANGED <<Users, Expenses, RecurringPayments, Budget, sqlite_sequence,
                       current_user_id, today>>

NextCategories ==
    \/ LoginPage_loginP1
    \/ ExpenseAdd50
    \/ CategoryAdd
    \/ CategoryDelete
    \/ CategoryPage_delete_category

SpecCategories == InitCategories /\ [][NextCategories]_vars

\* C19: Category.delete(name, user_id) raises nothing, removes every Categories
\* row of that name and that user, and keeps every other row: the categories of
\* other users (the same name included), the user's other categories, and all
\* of Expenses.
C19_CategoryDelete ==
    [][(last'.op = "Category.delete") =>
         /\ last'.error = "none"
         /\ \A c \in Categories' :
               c \in Categories /\ ~(c.name = last'.name /\ c.user_id = last'.user_id)
         /\ \A c \in Categories :
               (c.name # last'.name \/ c.user_id # last'.user_id) => c \in Categories'
         /\ Expenses' = Expenses]_vars

\* A delete has removed a category of a user who has an expense naming it,
\* while another user keeps a category of the same name.
C19_Witness ==
    /\ last.op = "Category.delete"
    /\ last.deleted >= 1
    /\ \E c \in Categories : c.name = last.name /\ c.user_id # last.user_id
    /\ \E e \in Expenses : e.category = last.name /\ e.user_id = last.user_id

(***************************************************************************)
(* Every operation that writes a table, from any caller                    *)
(***************************************************************************)
\* user_id arguments of a direct call: None, a user's id, or an id no user has.
OwnerArgs == {None} \cup UserIdArgs

\* The rows inserted so far into the four owned tables; at most MaxOwnedRows
\* are inserted in all.
OwnedRows ==
    sqlite_sequence.Expenses + sqlite_sequence.RecurringPayments
        + sqlite_sequence.Budget + sqlite_sequence.Categories

WithinOwnedRows == OwnedRows <= MaxOwnedRows

\* One user, alice, registers and logs in: 1 is the id of a user once she has
\* registered, 2 and 3 never are.
RegisterPage_registerAlice == RegisterPage_registerWith({"alice"}, {"p1"})
LoginPage_loginAlice == LoginPage_loginWith({"alice"}, {"p1"})

NextOwnership ==
    \/ RegisterPage_registerAlice
    \/ LoginPage_loginAlice
    \/ NavigationBar_logout
    \/ ExpenseAddWith({50}, OwnerArgs) /\ WithinOwnedRows'
    \/ ExpenseUpdate
    \/ ExpenseDelete
    \/ RecurringPaymentAddOf({<<2024, 2, 28>>}, OwnerArgs) /\ WithinOwnedRows'
    \/ RecurringPaymentsPage_add_paymentWith({"rent"}, {Number(100)}, {<<2024, 2, 29>>})
          /\ WithinOwnedRows'
    \/ RecurringPaymentDelete
    \/ RecurringPaymentMarkAsPaid
    \/ BudgetSetMonthlyBudgetWith({50}, OwnerArgs) /\ WithinOwnedRows'
    \/ CategoryAdd
    \/ CategoryDelete
    \/ check_alerts_alert

SpecOwnership == Init /\ [][NextOwnership]_vars

\* C20: in every reachable state every row of Categories, Expenses,
\* RecurringPayments and Budget has the id of a row of Users as its user_id.
C20_Ownership ==
    /\ \A c \in Categories : \E u \in Users : u.id = c.user_id
    /\ \A e \in Expenses : \E u \in Users : u.id = e.user_id
    /\ \A p \in RecurringPayments : \E u \in Users : u.id = p.user_id
    /\ \A b \in Budget : \E u \in Users : u.id = b.user_id

\* The Recurring Payments page has just been asked to add a valid payment
\* while nobody is logged in, in a state where a user has a stored payment.
C20_Witness ==
    /\ last.op = "RecurringPaymentsPage.add_payment"
    /\ last.valid
    /\ current_user_id = None
    /\ notes = <<[kind |-> "Error"]>>
    /\ RecurringPayments # {}

(***************************************************************************)
(* gui.py: SetBudgetPage.set_budget                                        *)
(***************************************************************************)
\* What can be typed into the month entry (a plain text entry).  A month
\* written 'YYYY-MM' is <<y, m>>; the text with a one-digit month and no
\* leading zero, such as '2024-2', is <<y, m, "M">>.
ShortMonth(y, m) == <<y, m, "M">>

\* The text is of the form 'YYYY-MM'.
IsYearMonthText(s) == Len(s) = 2

TypedMonths == {<<2024, 2>>, ShortMonth(2024, 2), <<2024, 13>>}

\* datetime.strptime(s, '%Y-%m'): the directive %m matches a month number with
\* or without its leading zero, so 'YYYY-MM' and 'YYYY-M' both parse when the
\* month is one of 1..12; anything else raises ValueError.
strptime_month(s) ==
    IF s[2] \in 1..12 /\ (Len(s) = 2 \/ s[2] < 10)
    THEN [year |-> s[1], month |-> s[2], day |-> 1]
    ELSE RaisedValueError

SetBudgetPage_set_budget ==
    \E month \in TypedMonths, amount_text \in SaveAmounts :
        LET valid == /\ current_user_id # None
                     /\ strptime_month(month) # RaisedValueError
                     /\ amount_text.numeric
                     /\ amount_text.value > 0
            r == set_monthly_budget(Budget, sqlite_sequence.Budget, Users,
                                    month, amount_text.value, current_user_id)
        IN
        /\ IF valid
           THEN /\ r.seq <= MaxRowId
                /\ Budget' = r.rows
                /\ sqlite_sequence' = [sqlite_sequence EXCEPT !.Budget = r.seq]
                /\ notes' = IF r.error = "none" THEN <<[kind |-> "Success"]>>
                            ELSE <<[kind |-> "Error"]>>
           ELSE /\ notes' = IF current_user_id = None
                            THEN <<[kind |-> "Authentication Error"]>>
                            ELSE <<[kind |-> "Input Error"]>>
                /\ UNCHANGED <<Budget, sqlite_sequence>>
        /\ UNCHANGED window
        /\ last' = [op |-> "SetBudgetPage.set_budget", month |-> month,
                    amount |-> amount_text, valid |-> valid]
        /\ UNCHANGED <<Users, Expenses, RecurringPayments, Categories, current_user_id, today>>

\* The four handlers that validate what the user typed before they write.
\* The expenses the edit window opens on come from Expense.add calls.
NextValidation ==
    \/ RegisterPage_registerAlice
    \/ LoginPage_loginAlice
    \/ ExpenseAddWith({50}, {1})
    \/ AddExpensePage_save_expense
    \/ ViewExpensesPage_save_changes
    \/ RecurringPaymentsPage_add_payment
    \/ SetBudgetPage_set_budget

SpecValidation == Init /\ [][NextValidation]_vars

ValidationHandlers ==
    {"AddExpensePage.save_expense", "ViewExpensesPage.save_changes",
     "RecurringPaymentsPage.add_payment", "SetBudgetPage.set_budget"}

\* C21: after a handler of the presentation layer every Expenses,
\* RecurringPayments and Budget row has an amount > 0, every date of Expenses
\* and RecurringPayments is a calendar date 'YYYY-MM-DD', every month of
\* Budget is a month 'YYYY-MM'; a handler that reports an input or
\* authentication error leaves the store as it was.
C21_ValidatedStore ==
    [][(last'.op \in ValidationHandlers) =>
         /\ \A e \in Expenses' : e.amount > 0 /\ strptime(e.date) # RaisedValueError
         /\ \A p \in RecurringPayments' :
               p.amount > 0 /\ strptime(p.due_date) # RaisedValueError
         /\ \A b \in Budget' :
               /\ b.amount > 0
               /\ IsYearMonthText(b.month)
               /\ strptime_month(b.month) # RaisedValueError
         /\ (\E i \in DOMAIN notes' :
                notes'[i].kind \in {"Input Error", "Authentication Error"})
               => store' = store]_vars

(***************************************************************************)
(* The handlers in which a domain operation or the rollover rule raises    *)
(***************************************************************************)
RecurringPaymentsPage_add_paymentLeapDay ==
    RecurringPaymentsPage_add_paymentWith({"rent"}, {Number(100)}, {<<2024, 2, 29>>})

NextErrors ==
    \/ RegisterPage_registerAlice
    \/ LoginPage_loginAlice
    \/ NavigationBar_logout
    \/ RecurringPaymentsPage_add_paymentLeapDay
    \/ RecurringPaymentsPage_delete_payment
    \/ RecurringPaymentsPage_mark_as_paid
    \/ Midnight
    \/ check_alerts_alert

SpecErrors == Init /\ [][NextErrors]_vars

\* The logged-in user has a payment whose due date is before today.
HasOverdue ==
    /\ current_user_id # None
    /\ \E p \in RecurringPayments :
          /\ p.user_id = current_user_id
          /\ days_between(strptime(p.due_date), today) < 0

\* C22: a handler in which a domain operation or the rollover rule raises (mark
\* as paid or a confirmed delete of a selected payment, a valid add while
\* nobody is logged in, an evaluator pass over an overdue payment) reports the
\* error in an 'Error' message box, and every step that shows one leaves the
\* store and current_user_id as they were.
C22_NoFatalError ==
    [][/\ (/\ last'.op = "RecurringPaymentsPage.mark_as_paid"
           /\ last'.selected # None) => notes' = <<[kind |-> "Error"]>>
       /\ (/\ last'.op = "RecurringPaymentsPage.delete_payment"
           /\ last'.selected # None
           /\ last'.confirm) => notes' = <<[kind |-> "Error"]>>
       /\ (/\ last'.op = "RecurringPaymentsPage.add_payment"
           /\ last'.valid
           /\ current_user_id = None) => notes' = <<[kind |-> "Error"]>>
       /\ (last'.op = "alert" /\ HasOverdue) =>
             \E i \in DOMAIN notes' : notes'[i].kind = "Error"
       /\ (\E i \in DOMAIN notes' : notes'[i].kind = "Error") =>
             /\ store' = store
             /\ current_user_id' = current_user_id]_vars

\* An evaluator pass has reported the ValueError of the rollover rule.
C22_Witness ==
    /\ last.op = "alert"
    /\ current_user_id # None
    /\ \E i \in DOMAIN notes : notes[i].kind = "Error" /\ notes[i].error = "ValueError"

\* C23: a successful login runs the evaluator for the user who logged in: a
\* payment of theirs that is due on the day of the login is notified by that
\* login, not only by the next 24-hour tick.
C23_AlertsAtLogin ==
    [][(/\ last'.op = "LoginPage.login"
        /\ authenticate(Users, strip(last'.username), strip(last'.password)) # None
        /\ \E p \in RecurringPayments :
              /\ p.user_id = current_user_id'
              /\ p.due_date = strftime(today)) =>
         \E i \in DOMAIN notes' : notes'[i].kind = "Payment Due Today"]_vars

(***************************************************************************)
(* Connections: what becomes of the connection a models.py operation       *)
(* opened with get_connection(), once the call has returned or raised.     *)
(***************************************************************************)

\* User.add_user: conn.close() stands in a finally clause, so that it runs after
\* the return and after the ValueError alike.
add_user_connection(U, username) == "closed"

\* Expense.add: conn.close() is the last statement, after the INSERT and the
\* commit, outside any try: the IntegrityError of the INSERT leaves the
\* function before it, the connection still open.
Expense_add_connection(U, user_id) ==
    IF ForeignKeyOk(U, user_id) THEN "closed" ELSE "open"

\* RecurringPayment.add: as Expense.add.
RecurringPayment_add_connection(U, user_id) ==
    IF ForeignKeyOk(U, user_id) THEN "closed" ELSE "open"

\* Budget.set_monthly_budget: conn.close() is the last statement; the UPDATE
\* branch reaches it, the INSERT branch only when the foreign key holds.
set_monthly_budget_connection(B, U, month, user_id) ==
    IF (\E b \in B : b.month = month /\ b.user_id = user_id) \/ ForeignKeyOk(U, user_id)
    THEN "closed" ELSE "open"

\* C24: once a models.py operation has returned or raised, the connection it
\* opened is closed, Expense.add, RecurringPayment.add and
\* Budget.set_monthly_budget failing on a non-existent user_id included.
C24_ConnectionsReleased ==
    [][ /\ (last'.op = "User.add_user"
              => add_user_connection(Users, last'.username) = "closed")
        /\ (last'.op = "Expense.add"
              => Expense_add_connection(Users, last'.user_id) = "closed")
        /\ (last'.op = "RecurringPayment.add"
              => RecurringPayment_add_connection(Users, last'.user_id) = "closed")
        /\ (last'.op = "Budget.set_monthly_budget"
              => set_monthly_budget_connection(Budget, Users, last'.month,
                                               last'.user_id) = "closed") ]_vars

(***************************************************************************)
(* models.py: init_db, and the start of the application that calls it      *)
(***************************************************************************)
TableNames == {"Users", "Categories", "Expenses", "RecurringPayments", "Budget"}

\* The database file as init_db finds it: the tables it holds, each with its
\* rows.
Database ==
    [Users |-> Users, Categories |-> Categories, Expenses |-> Expenses,
     RecurringPayments |-> RecurringPayments, Budget |-> Budget]

\* CREATE TABLE name (...) after DROP TABLE IF EXISTS name: the table is there
\* and empty.
create_table_afresh(db, name) ==
    [t \in DOMAIN db \cup {name} |-> IF t = name THEN {} ELSE db[t]]

\* CREATE TABLE IF NOT EXISTS name (...): a table that exists is left as it is,
\* one that does not is created empty.
create_table_if_not_exists(db, name) ==
    IF name \in DOMAIN db
    THEN db
    ELSE [t \in DOMAIN db \cup {name} |-> IF t = name THEN {} ELSE db[t]]

\* init_db: the five CREATE TABLE IF NOT EXISTS statements in the order of the
\* source, then commit and close.
init_db(db) ==
    LET d1 == create_table_if_not_exists(db, "Users")
        d2 == create_table_if_not_exists(d1, "Categories")
        d3 == create_table_if_not_exists(d2, "Expenses")
        d4 == create_table_if_not_exists(d3, "RecurringPayments")
    IN create_table_if_not_exists(d4, "Budget")

\* PersonalBankingApp.__init__ on the database file of the runs before: init_db,
\* nobody logged in, the login page shown, and the first pass of check_alerts
\* (which checks nothing, current_user_id being None).  The AUTOINCREMENT
\* counters are SQLite's own table, which no statement of init_db names.
PersonalBankingApp_init ==
    LET db == init_db(Database) IN
    /\ Users' = db.Users
    /\ Categories' = db.Categories
    /\ Expenses' = db.Expenses
    /\ RecurringPayments' = db.RecurringPayments
    /\ Budget' = db.Budget
    /\ current_user_id' = None
    /\ notes' = <<>>
    /\ after_callbacks' = after(<<>>, AlertInterval, "alert")
    /\ frame' = "LoginPage"
    /\ current_page' = 1
    /\ total_pages' = 1
    /\ tree' = <<>>
    /\ last' = [op |-> "PersonalBankingApp.__init__"]
    /\ UNCHANGED <<sqlite_sequence, today>>

NextRestart ==
    \/ RegisterPage_registerAlice
    \/ LoginPage_loginAlice
    \/ ExpenseAddWith({50}, {1})
    \/ RecurringPaymentAddOf({<<2024, 2, 28>>}, {1})
    \/ BudgetSetMonthlyBudgetWith({50}, {1})
    \/ PersonalBankingApp_init

SpecRestart == Init /\ [][NextRestart]_vars

\* C25: init_db on a store that has the five tables leaves every table and
\* every row as it was (a restart of the application loses and duplicates
\* nothing), and init_db twice is init_db once.
C25_InitDbIdempotent ==
    [][ last'.op = "PersonalBankingApp.__init__"
          => /\ store' = store
             /\ DOMAIN init_db(Database) = TableNames
             /\ init_db(Database) = Database
             /\ init_db(init_db(Database)) = init_db(Database) ]_vars

C25_Witness ==
    /\ last.op = "PersonalBankingApp.__init__"
    /\ Users # {}
    /\ Expenses # {}
    /\ RecurringPayments # {}
    /\ Budget # {}

\* C26: for every valid date, Weekly returns the calendar date exactly 7 days
\* later, carrying across month ends, leap-year February and year ends.
C26_WeeklyRollover ==
    (last.op = "calculate_next_due_date" /\ last.frequency = "Weekly") =>
        LET dt == last.date
            n == DaysInMonth(dt.year, dt.month)
        IN last.result =
             IF dt.day + 7 <= n
             THEN [year |-> dt.year, month |-> dt.month, day |-> dt.day + 7]
             ELSE IF dt.month < 12
             THEN [year |-> dt.year, month |-> dt.month + 1, day |-> dt.day + 7 - n]
             ELSE [year |-> dt.year + 1, month |-> 1, day |-> dt.day + 7 - n]

\* 2024-12-28 -> 2025-01-04, across the end of the year.
C26_Witness ==
    /\ last.op = "calculate_next_due_date"
    /\ last.frequency = "Weekly"
    /\ last.date = [year |-> 2024, month |-> 12, day |-> 28]
    /\ last.result = [year |-> 2025, month |-> 1, day |-> 4]

\* payment_date arguments before and after the due date 2024-02-28.
EarlyPaidDates == {<<2024, 1, 15>>, <<2024, 1, 28>>, <<2024, 3, 1>>}

RecurringPaymentMarkAsPaidEarly == RecurringPaymentMarkAsPaidOn(EarlyPaidDates)

NextRepayments ==
    \/ UserAddUserP1
    \/ RecurringPaymentAddFeb28
    \/ RecurringPaymentMarkAsPaidEarly

SpecRepayments == Init /\ [][NextRepayments]_vars

\* C27: calculate_next_due_date returns a date strictly later than its input,
\* hence a mark-as-paid that succeeds never moves the payment's due_date
\* backwards or leaves it in place.
C27_RolloverForward ==
    [][ (last'.op = "RecurringPayment.mark_as_paid" /\ last'.error = "none")
          => \A p \in RecurringPayments :
                (p.id = last'.id /\ p.user_id = last'.user_id)
                  => \E q \in RecurringPayments' :
                        /\ q.id = p.id
                        /\ StrLess(strftime(strptime(last'.payment_date)),
                                   strftime(calculate_next_due_date(
                                       strptime(last'.payment_date), p.frequency)))
                        /\ StrLess(p.due_date, q.due_date) ]_vars

\* C28: current_user_id is None or the id of an existing user; it becomes the
\* id of a user only by a LoginPage.login whose (stripped) username and
\* password User.authenticate matched to that user; a failed login and a
\* registration, failed or successful, leave it as it was; a confirmed logout
\* resets it to None, a declined one leaves it.
C28_Session ==
    /\ [](current_user_id = None \/ \E u \in Users : u.id = current_user_id)
    /\ [][ /\ (current_user_id' # None /\ current_user_id' # current_user_id)
                => last'.op = "LoginPage.login"
           /\ last'.op = "LoginPage.login"
                => LET username == strip(last'.username)
                       password == strip(last'.password)
                       match == {u \in Users : u.username = username /\ u.password = password}
                   IN IF username # "" /\ password # "" /\ match # {}
                      THEN \E u \in match : current_user_id' = u.id
                      ELSE current_user_id' = current_user_id
           /\ last'.op = "RegisterPage.register"
                => current_user_id' = current_user_id
           /\ last'.op = "NavigationBar.logout"
                => current_user_id' = IF last'.confirm THEN None ELSE current_user_id ]_vars

\* bob, logged in, has his session kept by a declined logout.
C28_Witness ==
    /\ last.op = "NavigationBar.logout"
    /\ ~last.confirm
    /\ \E u \in Users : u.id = current_user_id /\ u.username = "bob"
    /\ Cardinality(Users) = 2

\* C29: there is always exactly one pending alert tick; a tick schedules
\* exactly one next tick 24 hours later, whether or not a user is logged in
\* and whether or not the checks failed; no other handler (login and logout
\* among them) adds a tick or cancels the pending one; a tick while no user is
\* logged in shows nothing and changes no stored row.
C29_AlertTimer ==
    /\ [](after_callbacks = <<[ms |-> 24 * 60 * 60 * 1000, func |-> "alert"]>>)
    /\ [][ /\ last'.op = "alert"
                => after_callbacks' =
                     Append(Tail(after_callbacks),
                            [ms |-> 24 * 60 * 60 * 1000, func |-> "alert"])
           /\ last'.op # "alert" => after_callbacks' = after_callbacks
           /\ (last'.op = "alert" /\ current_user_id = None)
                => /\ notes' = <<>>
                   /\ store' = store
                   /\ current_user_id' = None ]_vars

\* A tick with nobody logged in, a payment of alice in the store, after a
\* logout.
C29_Witness ==
    /\ last.op = "alert"
    /\ current_user_id = None
    /\ RecurringPayments # {}
    /\ frame = "LoginPage"
    /\ Len(after_callbacks) = 1

(***************************************************************************)
(* gui.py: the View Expenses page and its pagination                       *)
(***************************************************************************)
\* How many expenses alice has recorded in earlier runs: none, one, and full
\* and just-started pages.
ExpenseCounts == {0, 1, 20, 21, 40, 41}

\* The program starts on a database file of earlier runs: alice (id 1) with n
\* expenses of distinct dates, bob (id 2) with one.
InitPagination ==
    /\ Users = {[id |-> 1, username |-> "alice", password |-> "p1"],
                [id |-> 2, username |-> "bob", password |-> "p1"]}
    /\ \E n \in ExpenseCounts :
          /\ Expenses =
                { [id |-> i,
                   date |-> strftime(plus_days([year |-> 2024, month |-> 1, day |-> 1], i)),
                   category |-> "food", amount |-> 50, user_id |-> 1] : i \in 1..n }
                \cup {[id |-> n + 1, date |-> <<2024, 1, 1>>, category |-> "food",
                       amount |-> 30, user_id |-> 2]}
          /\ sqlite_sequence = [Users |-> 2, Expenses |-> n + 1, RecurringPayments |-> 0,
                                Budget |-> 0, Categories |-> 0]
    /\ RecurringPayments = {}
    /\ Budget = {}
    /\ Categories = {}
    /\ current_user_id = None
    /\ today = StartDay
    /\ notes = <<>>
    /\ InitWindow
    /\ last = [op |-> "init"]

\* The View Expenses button: show_frame(ViewExpensesPage), which refreshes the
\* page and raises it.
show_frame_ViewExpensesPage ==
    /\ ViewExpensesPage_refresh(Expenses)
    /\ frame' = "ViewExpensesPage"
    /\ notes' = <<>>
    /\ last' = [op |-> "ViewExpensesPage.refresh"]
    /\ UNCHANGED <<store, current_user_id, today, after_callbacks>>

\* The Back to Home button: show_frame(HomePage).
show_frame_HomePage ==
    /\ frame' = "HomePage"
    /\ notes' = <<>>
    /\ last' = [op |-> "HomePage.refresh"]
    /\ UNCHANGED <<store, current_user_id, today, after_callbacks, page>>

\* The Next button of the page.
ViewExpensesPage_next_page ==
    /\ frame = "ViewExpensesPage"
    /\ \E expenses \in FetchedExpenses(Expenses, current_user_id) :
          IF current_page < total_pages
          THEN /\ current_page' = current_page + 1
               /\ tree' = display_page(expenses, current_page + 1)
          ELSE UNCHANGED <<current_page, tree>>
    /\ notes' = <<>>
    /\ last' = [op |-> "ViewExpensesPage.next_page"]
    /\ UNCHANGED <<store, current_user_id, today, after_callbacks, frame, total_pages>>

\* The Previous button of the page.
ViewExpensesPage_prev_page ==
    /\ frame = "ViewExpensesPage"
    /\ \E expenses \in FetchedExpenses(Expenses, current_user_id) :
          IF current_page > 1
          THEN /\ current_page' = current_page - 1
               /\ tree' = display_page(expenses, current_page - 1)
          ELSE UNCHANGED <<current_page, tree>>
    /\ notes' = <<>>
    /\ last' = [op |-> "ViewExpensesPage.prev_page"]
    /\ UNCHANGED <<store, current_user_id, today, after_callbacks, frame, total_pages>>

\* self.tree.focus(): the first row the tree shows, or None for "no row
\* selected".
TreeSelections == {None} \cup (IF tree = <<>> THEN {} ELSE {tree[1][1]})

\* Save Changes and Delete on the page raised, for the row selected in its
\* tree.
ViewExpensesPage_save_changesShown ==
    /\ frame = "ViewExpensesPage"
    /\ ViewExpensesPage_save_changesWith(TreeSelections, {<<2024, 3, 1>>}, {Number(50)})

ViewExpensesPage_delete_expenseShown ==
    /\ frame = "ViewExpensesPage"
    /\ ViewExpensesPage_delete_expenseWith(TreeSelections)

NextPagination ==
    \/ LoginPage_loginAlice
    \/ NavigationBar_logout
    \/ show_frame_ViewExpensesPage
    \/ show_frame_HomePage
    \/ ViewExpensesPage_next_page
    \/ ViewExpensesPage_prev_page
    \/ ViewExpensesPage_save_changesShown
    \/ ViewExpensesPage_delete_expenseShown

SpecPagination == InitPagination /\ [][NextPagination]_vars

\* C30: while the View Expenses page is shown, 1 <= current_page <=
\* total_pages, total_pages = max(1, ceil(n / 20)) for the n expenses of the
\* user, and the tree holds exactly the rows (current_page-1)*20 ..
\* current_page*20 - 1 (counted from 0) of the user's expense list, in order.
C30_Pagination ==
    frame = "ViewExpensesPage" =>
        /\ 1 <= current_page
        /\ current_page <= total_pages
        /\ \E expenses \in FetchedExpenses(Expenses, current_user_id) :
              LET n == Len(expenses)
                  ceil == CHOOSE k \in 0..n : 20 * k >= n /\ 20 * (k - 1) < n
                  first == (current_page - 1) * 20
                  shown == IF n - first >= 20 THEN 20
                           ELSE IF n - first > 0 THEN n - first ELSE 0
              IN /\ total_pages = (IF ceil > 1 THEN ceil ELSE 1)
                 /\ Len(tree) = shown
                 /\ \A i \in 1..shown : tree[i] = expenses[first + i]

\* alice, 41 expenses, back on page 2 of 3 from page 3.
C30_Witness ==
    /\ frame = "ViewExpensesPage"
    /\ last.op = "ViewExpensesPage.prev_page"
    /\ current_user_id = 1
    /\ current_page = 2
    /\ total_pages = 3
    /\ Len(tree) = 20
    /\ tree[1][1] = 21

============================================================================
